---- MODULE Spec2Model ----
(***************************************************************************)
(* A model of the Caterwaul syntax engine (src/caterwaul.js): the syntax   *)
(* node store, the lexer and the operator-folding parser, the serializer,  *)
(* the tree traversals (rmap, s, flatten), the pattern matcher, the macro  *)
(* expander and the clonable macro registry.                               *)
(*                                                                         *)
(* Source text is a string; s.charAt / s.substring are SubSeq on it.       *)
(* Every syntax_node object lives in a store (a sequence of records); a    *)
(* node reference is its index in the store and null is 0.                 *)
(***************************************************************************)
EXTENDS Integers, Sequences, FiniteSets, TLC

VARIABLES heap, pv, out, cw

vars == <<heap, pv, out, cw>>

(***************************************************************************)
(* Utility methods (caterwaul.js 79-102).                                  *)
(***************************************************************************)
null == 0

NaN == "NaN"

Range(f) == {f[k] : k \in DOMAIN f}

\* hash: the object mapping every word to true.  The argument is the array that
\* qw (s.split(/\s+/)) makes of the string in the source: its words, in order.
hash(xs) == [w \in Range(xs) |-> TRUE]

\* has: own-property test; the _max_length test only short-circuits long
\* candidates and never changes the answer.  The empty string is falsy.
\* sequencing: the value of e is computed once, then F is applied to it
seq(e, F(_)) == CHOOSE r \in {F(a) : a \in {e}} : TRUE

has(o, p) == p # "" /\ p \in DOMAIN o

(***************************************************************************)
(* Precomputed lexer tables (caterwaul.js 337-345).                        *)
(***************************************************************************)
lex_op == hash(<<".", "new", "++", "--", "u++", "u--", "u+", "u-", "typeof", "u~", "u!", "!", "*", "/", "%", "+", "-", "<<", ">>", ">>>", "<", ">", "<=", ">=", "instanceof", "in", "==", "!=", "===", "!==", "&", "^", "|", "&&", "||", "?", "=", "+=", "-=", "*=", "/=", "%=", "&=", "|=", "^=", "<<=", ">>=", ">>>=", ":", ",", "return", "throw", "case", "var", "const", "break", "continue", "void", "else", "u;", ";">>)

\* lex_table: the characters of s, as the set of indexes that hold true
lex_table(s) == {SubSeq(s, k, k) : k \in 1..Len(s)}

lex_float == lex_table(".0123456789")
lex_decimal == lex_table("0123456789")
lex_integer == lex_table("0123456789abcdefABCDEFx")
lex_exp == lex_table("eE")
lex_space == lex_table(" \n\r\t")
lex_bracket == lex_table("()[]{}")
lex_opener == lex_table("([{")
lex_punct == lex_table("+-*/%&|^!~=<>?:;.,")
lex_eol == lex_table("\n\r")
lex_regexp_suffix == lex_table("gims")
lex_quote == lex_table("'\"/")
lex_slash == "/"
lex_star == "*"
lex_back == "\\"
lex_dot == "."
lex_zero == "0"
\* a variant of lex_postfix_unary that holds the prefix forms
lex_postfix_unary_prefixed == hash(<<"u++", "u--">>)

lex_postfix_unary == hash(<<"++", "--">>)

lex_ident == lex_table("$_abcdefghijklmnopqrstuvwxyzABCDEFGHIJKLMNOPQRSTUVWXYZ0123456789")

(***************************************************************************)
(* Parse data (caterwaul.js 351-365).                                      *)
(***************************************************************************)
\* the strings of lines 351-353, each as the array of its words
reduce_order_words == <<
  <<"function">>,
  <<"(", "[", ".", "[]", "()">>,
  <<"new">>,
  <<"u++", "u--", "++", "--", "typeof", "u~", "u!", "u+", "u-">>,
  <<"*", "/", "%">>,
  <<"+", "-">>,
  <<"<<", ">>", ">>>">>,
  <<"<", ">", "<=", ">=", "instanceof", "in">>,
  <<"==", "!=", "===", "!==">>,
  <<"&">>,
  <<"^">>,
  <<"|">>,
  <<"&&">>,
  <<"||">>,
  <<"case">>,
  <<"?">>,
  <<"=", "+=", "-=", "*=", "/=", "%=", "&=", "|=", "^=", "<<=", ">>=", ">>>=">>,
  <<":">>,
  <<",">>,
  <<"return", "throw", "break", "continue", "delete", "void">>,
  <<"var", "const">>,
  <<"if", "else", "try", "catch", "finally", "for", "switch", "with", "while", "do">>,
  <<";">> >>

\* parse_reduce_order: map(hash, [...])
parse_reduce_order == [g \in DOMAIN reduce_order_words |-> hash(reduce_order_words[g])]

parse_associates_right == hash(<<"=", "+=", "-=", "*=", "/=", "%=", "&=", "^=", "|=", "<<=", ">>=", ">>>=", "~", "!", "new", "typeof", "u+", "u-", "--", "++", "u--", "u++", "?", "if", "else", "function", "try", "catch", "finally", "for", "switch", "case", "with", "while", "do">>)

\* parse_inverse_order: token -> subscript of the last group that holds it (0-based, as
\* in the source: o[k] = i for i ascending)
parse_inverse_order ==
  [k \in UNION {Range(reduce_order_words[g]) : g \in DOMAIN reduce_order_words} |->
     (CHOOSE g \in DOMAIN reduce_order_words :
        /\ k \in Range(reduce_order_words[g])
        /\ \A g2 \in (g + 1)..Len(reduce_order_words) : k \notin Range(reduce_order_words[g2])) - 1]

\* a variant of parse_index_forward in which every group is iterated forward
parse_index_forward_all == [g \in DOMAIN reduce_order_words |-> TRUE]

\* parse_index_forward[g]: the loop of line 357 stops at the first key that does not
\* associate right and leaves true; a group whose first key associates right gets false
parse_index_forward ==
  [g \in DOMAIN reduce_order_words |-> ~ has(parse_associates_right, reduce_order_words[g][1])]

parse_lr == hash(<<"[]", ".", "()", "*", "/", "%", "+", "-", "<<", ">>", ">>>", "<", ">", "<=", ">=", "instanceof", "in", "==", "!=", "===", "!==", "&", "^", "|", "&&", "||", "=", "+=", "-=", "*=", "/=", "%=", "&=", "|=", "^=", "<<=", ">>=", ">>>=", ",", ":", ";">>)
\* a variant of parse_r_until_block in which function takes one sibling before its block
parse_r_until_block_one == [k \in {"function", "if", "do", "catch", "try", "for", "while", "with"} |-> 1]
parse_r_until_block == [k \in {"function", "if", "do", "catch", "try", "for", "while", "with"} |-> IF k = "function" THEN 2 ELSE 1]

parse_accepts == [k \in {"if", "do", "catch", "try"} |->
                    CASE k = "if" -> "else" [] k = "do" -> "while"
                      [] k = "catch" -> "finally" [] k = "try" -> "catch"]
parse_invocation == hash(<<"[]", "()">>)
parse_r_optional == hash(<<"return", "throw", "break", "continue", "else">>)
parse_l == hash(<<"++", "--">>)
parse_r == hash(<<"u+", "u-", "u!", "u~", "u++", "u--", "new", "typeof", "finally", "var", "const", "void", "delete">>)
parse_block == hash(<<";", "{">>)
parse_group == [k \in {"(", "[", "{", "?"} |->
                  CASE k = "(" -> ")" [] k = "[" -> "]" [] k = "{" -> "}" [] k = "?" -> ":"]
parse_invisible == hash(<<"i;">>)
parse_ambiguous_group == hash(<<"[", "(">>)
parse_ternary == hash(<<"?">>)
parse_not_a_value == hash(<<"function", "if", "for", "while", "catch">>)

(***************************************************************************)
(* Syntax nodes (caterwaul.js 159-168).  A node is [data, ch, l, r, p];    *)
(* ch holds this[0..length-1], with null for an empty slot.                *)
(***************************************************************************)
\* new syntax_node(data) without children
syntax_node(h, data) == Append(h, [data |-> data, ch |-> <<>>, l |-> null, r |-> null, p |-> null])

\* the reference of the node that syntax_node(h, data) creates
fresh(h) == Len(h) + 1

\* append: (this[@length++] = $0) && ($0.p = this), this
append(h, this, x) ==
  LET h1 == [h EXCEPT ![this].ch = Append(@, x)]
  IN  IF x # null THEN [h1 EXCEPT ![x].p = this] ELSE h1

\* push: (this[@length++] = $0), this
push(h, this, x) == [h EXCEPT ![this].ch = Append(@, x)]

\* pop: --@length, this
pop(h, this) == [h EXCEPT ![this].ch = SubSeq(@, 1, Len(@) - 1)]

\* append_to: $0 && $0.append(this), this
append_to(h, this, x) == IF x # null THEN append(h, x, this) ELSE h

\* sibling: $0.p = @p, (@r = $0).l = this
sibling(h, this, x) ==
  [h EXCEPT ![x].p = h[this].p, ![this].r = x, ![x].l = this]

\* replace: ($0.l = @l) && (@l.r = $0), ($0.r = @r) && (@r.l = $0), this
replace(h, this, x) ==
  LET tl == h[this].l
      tr == h[this].r
      h1 == [h EXCEPT ![x].l = tl]
      h2 == IF tl # null THEN [h1 EXCEPT ![tl].r = x] ELSE h1
      h3 == [h2 EXCEPT ![x].r = tr]
  IN  IF tr # null THEN [h3 EXCEPT ![tr].l = x] ELSE h3

\* reparent: @p && @p[0] === this && (@p[0] = $0), this
reparent(h, this, x) ==
  LET tp == h[this].p
  IN  IF tp # null /\ Len(h[tp].ch) > 0 /\ h[tp].ch[1] = this
      THEN [h EXCEPT ![tp].ch[1] = x] ELSE h

\* a variant of unlink that leaves the links of the node as they are
unlink_linked(h, this, x) ==
  LET tl == h[this].l
      tr == h[this].r
      h1 == IF tl # null THEN [h EXCEPT ![tl].r = tr] ELSE h
      h2 == IF tr # null THEN [h1 EXCEPT ![tr].l = tl] ELSE h1
  IN  reparent(h2, this, x)

\* unlink: @l && (@l.r = @r), @r && (@r.l = @l), @l = @r = null, @reparent($0)
unlink(h, this, x) ==
  LET tl == h[this].l
      tr == h[this].r
      h1 == IF tl # null THEN [h EXCEPT ![tl].r = tr] ELSE h
      h2 == IF tr # null THEN [h1 EXCEPT ![tr].l = tl] ELSE h1
      h3 == [h2 EXCEPT ![this].l = null, ![this].r = null]
  IN  reparent(h3, this, x)

\* wrap: $0.p = @replace($0).p, @reparent($0), @l = @r = null, @append_to($0)
wrap(h, this, x) ==
  LET h1 == replace(h, this, x)
      h2 == [h1 EXCEPT ![x].p = h1[this].p]
      h3 == reparent(h2, this, x)
      h4 == [h3 EXCEPT ![this].l = null, ![this].r = null]
  IN  append_to(h4, this, x)

\* fold_l: @append(@l && @l.unlink(this))
fold_l(h, this) ==
  LET tl == h[this].l
  IN  IF tl # null THEN append(unlink(h, tl, this), this, tl) ELSE append(h, this, null)

\* fold_r: @append(@r && @r.unlink(this))
fold_r(h, this) ==
  LET tr == h[this].r
  IN  IF tr # null THEN append(unlink(h, tr, this), this, tr) ELSE append(h, this, null)

\* fold_lr: @fold_l().fold_r()
fold_lr(h, this) == fold_r(fold_l(h, this), this)


(***************************************************************************)
(* The parse function (caterwaul.js 372-600).  Its local variables are the *)
(* fields of one record v, under the names of the source; v.pc is the      *)
(* position in the function body:                                          *)
(*   "lex"      at the head of the main lex loop                           *)
(*   "comment"  inside the block-comment scan of line 405                  *)
(*   "fold"     in the operator fold loop (i, j index the fold order)      *)
(*   "semi"     in the inferred-semicolon loop over all_nodes              *)
(*   "invoc"    in the invocation-flattening loop                          *)
(*   "root"     before the root discovery                                  *)
(*   "done"     returned v.head;   "error"  threw (v.t names the error)    *)
(***************************************************************************)
\* cs: s.charCodeAt(i), NaN outside the string
cs(s, i) == IF i >= 0 /\ i < Len(s) THEN SubSeq(s, i + 1, i + 1) ELSE NaN

\* s.charAt(i): the empty string outside the string
charAt(s, i) == IF i >= 0 /\ i < Len(s) THEN SubSeq(s, i + 1, i + 1) ELSE ""

\* s.substring(a, b) for a <= b, clamped to the string
substring(s, a, b) == SubSeq(s, a + 1, IF b > Len(s) THEN Len(s) ELSE b)

RECURSIVE BitOr(_, _)
\* the | of two naturals
BitOr(a, b) ==
  IF a = 0 THEN b ELSE IF b = 0 THEN a
  ELSE 2 * BitOr(a \div 2, b \div 2) + (IF a % 2 = 1 \/ b % 2 = 1 THEN 1 ELSE 0)

\* the locals of parse after line 388-390, for source text s
parse_vars(s) ==
  [s |-> s, mark |-> 0, re |-> TRUE, t |-> "", i |-> 0, j |-> 0, l |-> Len(s),
   grouping_stack |-> <<>>, head |-> null, parent |-> null,
   indexes |-> [g \in DOMAIN parse_reduce_order |-> <<>>],
   invocation_nodes |-> <<>>, all_nodes |-> <<>>,
   pc |-> "lex"]

RECURSIVE skip_space(_, _, _)
\* line 397: while (lex_space[c = cs(i)] && i < l) mark = ++i
skip_space(s, i, l) ==
  IF cs(s, i) \in lex_space /\ i < l THEN skip_space(s, i + 1, l) ELSE i

RECURSIVE line_comment(_, _, _)
\* line 406: while (++i < l && ! lex_eol[cs(i)])
line_comment(s, i, l) ==
  IF i + 1 < l /\ cs(s, i + 1) \notin lex_eol THEN line_comment(s, i + 1, l) ELSE i + 1

RECURSIVE quote_scan(_, _, _, _, _, _)
\* line 413: while (++i < l && (c = cs(i)) !== close || esc) esc = ! esc && c === lex_back
quote_scan(s, l, i, c, esc, close) ==
  LET i1 == i + 1
      c1 == IF i1 < l THEN cs(s, i1) ELSE c
  IN  IF (i1 < l /\ c1 # close) \/ esc
      THEN quote_scan(s, l, i1, c1, (~ esc) /\ c1 = lex_back, close)
      ELSE i1

RECURSIVE regexp_suffix(_, _, _)
\* line 414: while (++i < l && lex_regexp_suffix[cs(i)])
regexp_suffix(s, i, l) ==
  IF i + 1 < l /\ cs(s, i + 1) \in lex_regexp_suffix THEN regexp_suffix(s, i + 1, l) ELSE i + 1

RECURSIVE integer_scan(_, _, _)
\* line 438: while (++i < l && lex_integer[cs(i)])
integer_scan(s, i, l) ==
  IF i + 1 < l /\ cs(s, i + 1) \in lex_integer THEN integer_scan(s, i + 1, l) ELSE i + 1

RECURSIVE float_scan(_, _, _, _, _)
\* line 439: while (++i < l && (lex_decimal[c = cs(i)] || (dot ^ (dot |= c === lex_dot))
\*                              || (exp ^ (exp |= lex_exp[c] && ++i))))
\* dot is 0/1 and exp is the | of the positions that followed an exponent marker
float_scan(s, i, l, dot, exp) ==
  LET i1 == i + 1
      c  == cs(s, i1)
  IN  IF ~ (i1 < l) THEN i1
      ELSE IF c \in lex_decimal THEN float_scan(s, i1, l, dot, exp)
      ELSE IF (~ dot) /\ c = lex_dot THEN float_scan(s, i1, l, TRUE, exp)
      ELSE IF c \in lex_exp
           THEN LET i2 == i1 + 1
                    e2 == BitOr(exp, i2)
                IN  IF e2 # exp THEN float_scan(s, i2, l, dot, e2) ELSE i2
           ELSE i1

RECURSIVE decimal_scan(_, _, _)
\* line 440: while (i < l && lex_decimal[cs(i)]) ++i
decimal_scan(s, i, l) ==
  IF i < l /\ cs(s, i) \in lex_decimal THEN decimal_scan(s, i + 1, l) ELSE i

RECURSIVE op_scan(_, _, _, _)
\* line 450: while (i < l && lex_punct[cs(i)] && has(lex_op, t + s.charAt(i))) t += s.charAt(i++)
op_scan(s, i, l, t) ==
  IF i < l /\ cs(s, i) \in lex_punct /\ has(lex_op, t \o charAt(s, i))
  THEN op_scan(s, i + 1, l, t \o charAt(s, i)) ELSE [i |-> i, t |-> t]

RECURSIVE ident_scan(_, _, _)
\* line 457: while (++i < l && lex_ident[cs(i)])
ident_scan(s, i, l) ==
  IF i + 1 < l /\ cs(s, i + 1) \in lex_ident THEN ident_scan(s, i + 1, l) ELSE i + 1

\* new_node: all_nodes.push(n), n
new_node(v, n) == [v EXCEPT !.all_nodes = Append(@, n)]

\* gs_top: grouping_stack[grouping_stack.length - 1], undefined for an empty stack
gs_top(v) == v.grouping_stack[Len(v.grouping_stack)]

\* the local function push of line 390, called as push(new_node(new syntax_node(t))):
\* head ? head.sibling(head = n) : (head = n.append_to(parent)), new_node(n)
parse_push(h, v, t) ==
  LET n  == fresh(h)
      h1 == syntax_node(h, t)
      h2 == IF v.head # null THEN sibling(h1, v.head, n) ELSE append_to(h1, n, v.parent)
  IN  [h |-> h2, v |-> new_node(new_node([v EXCEPT !.head = n], n), n), n |-> n]

\* a variant of token without the special case of line 496
token_plain(h, v, t, re) ==
  LET closes == Len(v.grouping_stack) > 0 /\ t = gs_top(v)
      hv == IF closes
            THEN [h |-> h,
                  v |-> [v EXCEPT !.grouping_stack = SubSeq(@, 1, Len(@) - 1),
                                  !.head = IF v.head # null THEN h[v.head].p ELSE v.parent,
                                  !.parent = null]]
            ELSE LET pu == parse_push(h, v, t)
                     v1 == IF has(parse_group, t)
                           THEN [pu.v EXCEPT !.grouping_stack = Append(@, parse_group[t]),
                                             !.parent = pu.n, !.head = null]
                           ELSE pu.v
                     v2 == IF has(parse_inverse_order, t)
                           THEN [v1 EXCEPT !.indexes[parse_inverse_order[t] + 1] =
                                             Append(@, IF v1.head # null THEN v1.head ELSE v1.parent)]
                           ELSE v1
                 IN  [h |-> pu.h, v |-> v2]
  IN  [h |-> hv.h, v |-> [hv.v EXCEPT !.re = re, !.t = t]]

\* lines 475-477 and 496: grouping, operator indexing and the regexp flag special case,
\* for the token t lexed with the flag re
token(h, v, t, re) ==
  LET closes == Len(v.grouping_stack) > 0 /\ t = gs_top(v)
      hv == IF closes
            THEN [h |-> h,
                  v |-> [v EXCEPT !.grouping_stack = SubSeq(@, 1, Len(@) - 1),
                                  !.head = IF v.head # null THEN h[v.head].p ELSE v.parent,
                                  !.parent = null]]
            ELSE LET pu == parse_push(h, v, t)
                     v1 == IF has(parse_group, t)
                           THEN [pu.v EXCEPT !.grouping_stack = Append(@, parse_group[t]),
                                             !.parent = pu.n, !.head = null]
                           ELSE pu.v
                     v2 == IF has(parse_inverse_order, t)
                           THEN [v1 EXCEPT !.indexes[parse_inverse_order[t] + 1] =
                                             Append(@, IF v1.head # null THEN v1.head ELSE v1.parent)]
                           ELSE v1
                 IN  [h |-> pu.h, v |-> v2]
      hd == hv.v.head
      re2 == re \/ (t = ")" /\ hv.h[hd].l # null /\ has(parse_r_until_block, hv.h[hv.h[hd].l].data))
  IN  [h |-> hv.h, v |-> [hv.v EXCEPT !.re = re2, !.t = t]]

\* the positions of the fold loop of lines 519-520: the first j of group i (0-based)
first_j(v, i) == IF parse_index_forward[i + 1] THEN 0 ELSE Len(v.indexes[i + 1]) - 1

RECURSIVE fold_pos(_, _, _)
\* the next (i, j) at which the loop body runs, starting from candidate j of group i
fold_pos(v, i, j) ==
  IF i >= Len(parse_reduce_order) THEN [v EXCEPT !.pc = "semi", !.i = Len(v.all_nodes) - 1]
  ELSE IF j >= 0 /\ j < Len(v.indexes[i + 1]) THEN [v EXCEPT !.pc = "fold", !.i = i, !.j = j]
  ELSE IF i + 1 >= Len(parse_reduce_order) THEN fold_pos(v, i + 1, 0)
  ELSE fold_pos(v, i + 1, first_j(v, i + 1))

\* the end of one iteration of the main lex loop: back to its head, or on to the fold loop
lex_next(v) ==
  IF v.i < Len(v.s) THEN [v EXCEPT !.pc = "lex"]
  ELSE fold_pos([v EXCEPT !.l = Len(parse_reduce_order)], 0, first_j(v, 0))

stall == "Internal error: The lexer failed to consume input"

\* a variant of lex_token without the test of line 463
lex_token_unchecked(h, v) ==
  LET s == v.s
      l == v.l
      mark == skip_space(s, v.i, l)
      i == mark
      c == cs(s, i)
      re == v.re
      \* each branch gives the position after the token, the flag and t (tk: true/false/string)
      br ==
        IF c \in lex_bracket
          THEN [i |-> i + 1, re |-> c \in lex_opener, tk |-> "true", t |-> ""]
        ELSE IF c = lex_slash /\ cs(s, i + 1) = lex_star
          THEN [i |-> i + 2, re |-> re, tk |-> "comment", t |-> ""]
        ELSE IF c = lex_slash /\ cs(s, i + 1) = lex_slash
          THEN [i |-> line_comment(s, i, l), re |-> re, tk |-> "false", t |-> ""]
        ELSE IF c \in lex_quote /\ re
          THEN [i |-> regexp_suffix(s, quote_scan(s, l, i, c, FALSE, c), l),
                re |-> FALSE, tk |-> "true", t |-> ""]
        ELSE IF c = lex_zero /\ cs(s, i + 1) \in lex_integer
          THEN [i |-> integer_scan(s, i, l), re |-> FALSE, tk |-> "true", t |-> ""]
        ELSE IF c \in lex_float /\ (c # lex_dot \/ cs(s, i + 1) \in lex_decimal)
          THEN [i |-> decimal_scan(s, float_scan(s, i, l, FALSE, 0), l),
                re |-> FALSE, tk |-> "true", t |-> ""]
        ELSE IF c \in lex_punct
          THEN LET o == op_scan(s, i, l, IF re THEN "u" ELSE "")
               IN  [i |-> o.i, re |-> ~ has(lex_postfix_unary, o.t), tk |-> "string", t |-> o.t]
        ELSE LET i2 == ident_scan(s, i, l)
                 t2 == substring(s, mark, i2)
             IN  [i |-> i2, re |-> has(lex_op, t2), tk |-> "string", t |-> t2]
      v1 == [v EXCEPT !.mark = mark, !.i = br.i, !.re = br.re]
  IN  IF br.tk = "comment" THEN [h |-> h, v |-> [v1 EXCEPT !.pc = "comment"]]
      ELSE IF br.tk = "false" THEN [h |-> h, v |-> lex_next(v1)]
      ELSE LET t == IF br.tk = "true" THEN substring(s, mark, br.i)
                    ELSE IF br.t = "u;" THEN ";" ELSE br.t
               r == token(h, v1, t, br.re)
           IN  [h |-> r.h, v |-> lex_next(r.v)]

\* one iteration of the main lex loop, lines 396-496 (a block comment only enters its scan)
lex_token(h, v) ==
  LET s == v.s
      l == v.l
      mark == skip_space(s, v.i, l)
      i == mark
      c == cs(s, i)
      re == v.re
      \* each branch gives the position after the token, the flag and t (tk: true/false/string)
      br ==
        IF c \in lex_bracket
          THEN [i |-> i + 1, re |-> c \in lex_opener, tk |-> "true", t |-> ""]
        ELSE IF c = lex_slash /\ cs(s, i + 1) = lex_star
          THEN [i |-> i + 2, re |-> re, tk |-> "comment", t |-> ""]
        ELSE IF c = lex_slash /\ cs(s, i + 1) = lex_slash
          THEN [i |-> line_comment(s, i, l), re |-> re, tk |-> "false", t |-> ""]
        ELSE IF c \in lex_quote /\ re
          THEN [i |-> regexp_suffix(s, quote_scan(s, l, i, c, FALSE, c), l),
                re |-> FALSE, tk |-> "true", t |-> ""]
        ELSE IF c = lex_zero /\ cs(s, i + 1) \in lex_integer
          THEN [i |-> integer_scan(s, i, l), re |-> FALSE, tk |-> "true", t |-> ""]
        ELSE IF c \in lex_float /\ (c # lex_dot \/ cs(s, i + 1) \in lex_decimal)
          THEN [i |-> decimal_scan(s, float_scan(s, i, l, FALSE, 0), l),
                re |-> FALSE, tk |-> "true", t |-> ""]
        ELSE IF c \in lex_punct
          THEN LET o == op_scan(s, i, l, IF re THEN "u" ELSE "")
               IN  [i |-> o.i, re |-> ~ has(lex_postfix_unary, o.t), tk |-> "string", t |-> o.t]
        ELSE LET i2 == ident_scan(s, i, l)
                 t2 == substring(s, mark, i2)
             IN  [i |-> i2, re |-> has(lex_op, t2), tk |-> "string", t |-> t2]
      v1 == [v EXCEPT !.mark = mark, !.i = br.i, !.re = br.re]
  IN  IF br.tk = "comment" THEN [h |-> h, v |-> [v1 EXCEPT !.pc = "comment"]]
      ELSE IF br.i = mark THEN [h |-> h, v |-> [v1 EXCEPT !.pc = "error", !.t = stall]]
      ELSE IF br.tk = "false" THEN [h |-> h, v |-> lex_next(v1)]
      ELSE LET t == IF br.tk = "true" THEN substring(s, mark, br.i)
                    ELSE IF br.t = "u;" THEN ";" ELSE br.t
               r == token(h, v1, t, br.re)
           IN  [h |-> r.h, v |-> lex_next(r.v)]

\* one iteration of the scan of line 405:
\*   while (++i < l && cs(i) !== lex_slash || cs(i - 1) !== lex_star);  t = ! ++i
\* From l + 1 on, cs(i) and cs(i - 1) are NaN and the test no longer depends on i:
\* the positions past l + 2 are folded back onto l + 1 and l + 2.
comment_scan(h, v) ==
  LET i1 == v.i + 1
  IN  IF (i1 < v.l /\ cs(v.s, i1) # lex_slash) \/ cs(v.s, i1 - 1) # lex_star
      THEN [h |-> h, v |-> [v EXCEPT !.i = IF i1 > v.l + 2 THEN v.l + 1 ELSE i1]]
      ELSE [h |-> h, v |-> lex_next([v EXCEPT !.i = i1 + 1])]

\* data of a node reference, undefined (never a token) for null
data_of(h, n) == IF n # null THEN h[n].data ELSE NaN

\* lines 536-537: the group node is an invocation or a dereference of its left sibling
is_invocation_group(h, node) ==
  LET data == h[node].data
      nl == h[node].l
  IN  /\ has(parse_ambiguous_group, data)
      /\ nl # null
      /\ (h[nl].data = "." \/ ~ (has(lex_op, h[nl].data) \/ has(parse_not_a_value, h[nl].data)))

\* line 537: invocation_nodes.push(node.l.wrap(new_node(new syntax_node(data + parse_group[data]))).p.fold_r())
fold_invocation(h, v, node) ==
  LET data == h[node].data
      x  == fresh(h)
      h1 == syntax_node(h, data \o parse_group[data])
      h2 == wrap(h1, h[node].l, x)
      h3 == fold_r(h2, h2[h[node].l].p)
  IN  [h |-> h3,
       v |-> [new_node(v, x) EXCEPT !.invocation_nodes = Append(@, h2[h[node].l].p)]]

RECURSIVE grab(_, _, _, _)
\* line 573: for (count = 0; count < limit && node.r && ! has(parse_block, node.r.data); ++count) node.fold_r()
grab(h, node, count, limit) ==
  IF count < limit /\ h[node].r # null /\ ~ has(parse_block, h[h[node].r].data)
  THEN grab(fold_r(h, node), node, count + 1, limit) ELSE h

\* lines 572-576: grab-until-block behavior
fold_until_block(h, node) ==
  LET data == h[node].data
      h1 == grab(h, node, 0, parse_r_until_block[data])
      h2 == IF h1[node].r # null /\ h1[h1[node].r].data # ";" THEN fold_r(h1, node) ELSE h1
      r1 == h2[node].r
      r2 == IF r1 # null THEN h2[r1].r ELSE null
  IN  IF has(parse_accepts, data) /\ r1 # null /\ r2 # null /\ parse_accepts[data] = h2[r2].data
      THEN fold_r(pop(fold_r(h2, node), node), node)
      ELSE IF has(parse_accepts, data) /\ r1 # null /\ parse_accepts[data] = h2[r1].data
      THEN fold_r(h2, node)
      ELSE h2

\* the body of the fold loop, lines 526-582, for the node at indexes[i][j]
fold_node(h, v, node) ==
  LET data == h[node].data
  IN  IF has(parse_lr, data) THEN [h |-> fold_lr(h, node), v |-> v]
      ELSE IF is_invocation_group(h, node) THEN fold_invocation(h, v, node)
      ELSE IF has(parse_l, data) THEN [h |-> fold_l(h, node), v |-> v]
      ELSE IF has(parse_r, data) THEN [h |-> fold_r(h, node), v |-> v]
      ELSE IF has(parse_ternary, data)
           THEN LET h1 == fold_lr(h, node)
                IN  [h |-> [h1 EXCEPT ![node].ch[1] = h1[node].ch[2],
                                      ![node].ch[2] = h1[node].ch[1]], v |-> v]
      ELSE IF has(parse_r_until_block, data) /\ h[node].r # null /\ h[h[node].r].data # ":"
           THEN [h |-> fold_until_block(h, node), v |-> v]
      ELSE IF has(parse_r_optional, data)
           THEN [h |-> IF h[node].r # null /\ h[h[node].r].data # ";" THEN fold_r(h, node) ELSE h,
                 v |-> v]
      ELSE [h |-> h, v |-> v]

\* one iteration of the fold loop and the step to the next one
fold_step(h, v) ==
  LET r == fold_node(h, v, v.indexes[v.i + 1][v.j + 1])
  IN  [h |-> r.h,
       v |-> fold_pos(r.v, v.i, IF parse_index_forward[v.i + 1] THEN v.j + 1 ELSE v.j - 1)]

\* line 590, one iteration: _.r && _.wrap(new syntax_node('i;')).p.fold_r()
inferred_semicolon(h, node) ==
  IF h[node].r # null
  THEN LET x == fresh(h)
           h1 == wrap(syntax_node(h, "i;"), node, x)
       IN  fold_r(h1, h1[node].p)
  ELSE h

semi_step(h, v) ==
  IF v.i >= 0
  THEN [h |-> inferred_semicolon(h, v.all_nodes[v.i + 1]), v |-> [v EXCEPT !.i = v.i - 1]]
  ELSE [h |-> h, v |-> [v EXCEPT !.pc = "invoc", !.i = 0, !.l = Len(v.invocation_nodes)]]

\* a variant of flatten_invocation that leaves the group in place
flatten_invocation_keep(h, n) == h

\* line 597, one iteration: (child = _[1] = _[1][0]) && (child.p = _)
flatten_invocation(h, n) ==
  LET g == h[n].ch[2]
      child == IF Len(h[g].ch) > 0 THEN h[g].ch[1] ELSE null
      h1 == [h EXCEPT ![n].ch[2] = child]
  IN  IF child # null THEN [h1 EXCEPT ![child].p = n] ELSE h1

invoc_step(h, v) ==
  IF v.i < v.l
  THEN [h |-> flatten_invocation(h, v.invocation_nodes[v.i + 1]), v |-> [v EXCEPT !.i = v.i + 1]]
  ELSE [h |-> h, v |-> [v EXCEPT !.pc = "root"]]

RECURSIVE ascend(_, _)
\* line 599: while (head.p) head = head.p
ascend(h, n) == IF h[n].p # null THEN ascend(h, h[n].p) ELSE n

\* lines 599-600; head is null when no token was lexed, and head.p throws
root_step(h, v) ==
  IF v.head = null THEN [h |-> h, v |-> [v EXCEPT !.pc = "error", !.t = "TypeError"]]
  ELSE [h |-> h, v |-> [v EXCEPT !.pc = "done", !.head = ascend(h, v.head)]]

\* one step of parse from position v.pc
parse_step(h, v) ==
  CASE v.pc = "lex" -> lex_token(h, v)
    [] v.pc = "comment" -> comment_scan(h, v)
    [] v.pc = "fold" -> fold_step(h, v)
    [] v.pc = "semi" -> semi_step(h, v)
    [] v.pc = "invoc" -> invoc_step(h, v)
    [] v.pc = "root" -> root_step(h, v)
    [] OTHER -> [h |-> h, v |-> v]

\* the position at which parse starts on source text s (the loop test of line 396)
parse_start(s) == lex_next(parse_vars(s))

\* the comment scan has run past the end of the input: it never leaves (see comment_scan)
scan_diverges(v) == v.pc = "comment" /\ v.i > v.l

\* the run has ended: returned, thrown, or found to diverge
parse_ended(v) == v.pc \in {"done", "error", "hang"}

RECURSIVE parse_run(_, _, _)
\* n steps of parse (n >= 1), or fewer when the run ends before; the steps are taken
\* in two halves to keep the evaluation shallow
parse_run(h, v, n) ==
  IF parse_ended(v) THEN [h |-> h, v |-> v]
  ELSE IF scan_diverges(v) THEN [h |-> h, v |-> [v EXCEPT !.pc = "hang"]]
  ELSE IF n <= 1 THEN parse_step(h, v)
  ELSE seq(parse_run(h, v, n \div 2), LAMBDA a : parse_run(a.h, a.v, n - (n \div 2)))

\* parse(s) on store h: the store afterwards and the locals at the end (v.head is the
\* returned root; pc is "hang" when the comment scan diverges, see comment_scan).
\* Every step consumes input, a fold index entry, a node of all_nodes or an invocation
\* node, so 8 * |s| + 8 steps are more than any returning run takes.
parse(h, s) ==
  seq(parse_start(s), LAMBDA v :
  seq(parse_run(h, v, 8 * Len(s) + 8), LAMBDA a :
      IF parse_ended(a.v) THEN a ELSE [h |-> a.h, v |-> [a.v EXCEPT !.pc = "hang"]]))

(***************************************************************************)
(* Views of the store.                                                     *)
(***************************************************************************)
RECURSIVE tree(_, _)
\* the tree under node n as a value: data and children, recursively
tree(h, n) ==
  IF n = null THEN <<>>
  ELSE <<h[n].data, [k \in 1..Len(h[n].ch) |-> tree(h, h[n].ch[k])]>>

RECURSIVE nodes_under(_, _)
\* the nodes reachable from n through children
nodes_under(h, n) ==
  IF n = null THEN {}
  ELSE {n} \cup UNION {nodes_under(h, h[n].ch[k]) : k \in 1..Len(h[n].ch)}

\* the nodes reachable from n through children that still carry a sibling link
stray_links(h, n) == {x \in nodes_under(h, n) : h[x].l # null \/ h[x].r # null}

(***************************************************************************)
(* Serialization (caterwaul.js 158, 261-272).                              *)
(***************************************************************************)
RECURSIVE join(_, _)
\* Array.prototype.join on an array of strings
join(xs, sep) ==
  IF Len(xs) = 0 THEN "" ELSE IF Len(xs) = 1 THEN xs[1]
  ELSE xs[1] \o sep \o join(Tail(xs), sep)

\* /\w/.test(c) for a single character c
word_char(c) == c \in lex_table("_abcdefghijklmnopqrstuvwxyzABCDEFGHIJKLMNOPQRSTUVWXYZ0123456789")

\* this[k], null for a missing or an empty slot
child(h, this, k) == IF k < Len(h[this].ch) THEN h[this].ch[k + 1] ELSE null

RECURSIVE serialize_joined(_, _)
\* a variant of serialize that always joins the children of a block keyword as they are
serialize_joined(h, this) ==
  LET op == h[this].data
      ts(x) == IF x # null THEN serialize_joined(h, x) ELSE ""
      kids == [k \in 1..Len(h[this].ch) |-> ts(h[this].ch[k])]
      k0 == child(h, this, 0)
      k1 == child(h, this, 1)
      k2 == child(h, this, 2)
      right == IF h[this].r # null THEN "/* -> " \o serialize_joined(h, h[this].r) \o " */" ELSE ""
      space == IF word_char(charAt(op, Len(op) - 1)) THEN " " ELSE ""
      no_u == IF charAt(op, 0) = "u" THEN substring(op, 1, Len(op)) ELSE op
      s == IF has(parse_invisible, op) THEN join(kids, space)
           ELSE IF has(parse_invocation, op)
             THEN join(<<ts(k0), charAt(op, 0), ts(k1), charAt(op, 1)>>, space)
           ELSE IF has(parse_ternary, op)
             THEN join(<<ts(k0), op, ts(k1), parse_group[op], ts(k2)>>, space)
           ELSE IF has(parse_group, op) THEN op \o join(kids, space) \o parse_group[op]
           ELSE IF has(parse_lr, op)
             THEN (IF Len(kids) > 0 THEN join(kids, space \o op \o space) ELSE op)
           ELSE IF has(parse_r, op) \/ has(parse_r_optional, op) THEN no_u \o space \o ts(k0)
           ELSE IF has(parse_r_until_block, op)
             THEN op \o space \o join(kids, "")
           ELSE IF has(parse_l, op) THEN ts(k0) \o space \o op
           ELSE op
  IN  s \o right

RECURSIVE serialize(_, _)
\* serialize; syntax_node_tostring (line 158) is ts: "" for an empty slot
serialize(h, this) ==
  LET op == h[this].data
      ts(x) == IF x # null THEN serialize(h, x) ELSE ""
      kids == [k \in 1..Len(h[this].ch) |-> ts(h[this].ch[k])]
      k0 == child(h, this, 0)
      k1 == child(h, this, 1)
      k2 == child(h, this, 2)
      right == IF h[this].r # null THEN "/* -> " \o serialize(h, h[this].r) \o " */" ELSE ""
      space == IF word_char(charAt(op, Len(op) - 1)) THEN " " ELSE ""
      no_u == IF charAt(op, 0) = "u" THEN substring(op, 1, Len(op)) ELSE op
      s == IF has(parse_invisible, op) THEN join(kids, space)
           ELSE IF has(parse_invocation, op)
             THEN join(<<ts(k0), charAt(op, 0), ts(k1), charAt(op, 1)>>, space)
           ELSE IF has(parse_ternary, op)
             THEN join(<<ts(k0), op, ts(k1), parse_group[op], ts(k2)>>, space)
           ELSE IF has(parse_group, op) THEN op \o join(kids, space) \o parse_group[op]
           ELSE IF has(parse_lr, op)
             THEN (IF Len(kids) > 0 THEN join(kids, space \o op \o space) ELSE op)
           ELSE IF has(parse_r, op) \/ has(parse_r_optional, op) THEN no_u \o space \o ts(k0)
           ELSE IF has(parse_r_until_block, op)
             THEN (IF has(parse_accepts, op) /\ k1 # null /\ h[k1].data # "{"
                      /\ k2 # null /\ parse_accepts[op] = h[k2].data
                   THEN op \o space \o join(<<ts(k0), ts(k1), ";", ts(k2)>>, "")
                   ELSE op \o space \o join(kids, ""))
           ELSE IF has(parse_l, op) THEN ts(k0) \o space \o op
           ELSE op
  IN  s \o right

(***************************************************************************)
(* Tree traversals (caterwaul.js 194-203, 226-229).  A call returns the    *)
(* store, the returned value r, the state st threaded through the callbacks *)
(* and err: "" for a normal return, else the name of the error thrown.      *)
(* st.log records the calls of the callbacks, st.i is the counter of s,     *)
(* st.w the engines and their arrays, st.npass the number of macro_expand   *)
(* calls so far.                                                            *)
(***************************************************************************)
ret(h, r, st) == [h |-> h, r |-> r, st |-> st, err |-> ""]

throw(h, st, e) == [h |-> h, r |-> null, st |-> st, err |-> e]

\* the engines of a fresh page: none, and no array
no_engines == [arrays |-> <<>>, engines |-> <<>>]

\* the callback state at the start of a call
st0(w) == [log |-> <<>>, i |-> 0, w |-> w, npass |-> 0]

\* the bound on the nesting of macroexpand calls (the interpreter's stack)
MaxDepth == 3

\* matched(ws) / unmatched / type_error: the outcomes of macro_try_match
matched(ws) == [err |-> "", m |-> TRUE, w |-> ws]

unmatched == [err |-> "", m |-> FALSE, w |-> <<>>]

type_error == [err |-> "TypeError", m |-> FALSE, w |-> <<>>]

RECURSIVE macro_try_match(_, _, _)
RECURSIVE match_children(_, _, _, _, _)
\* the loop of lines 693-695 from child i on
match_children(h, pattern, t, i, wildcards) ==
  IF i >= Len(h[pattern].ch) THEN matched(wildcards)
  ELSE seq(macro_try_match(h, h[pattern].ch[i + 1], h[t].ch[i + 1]), LAMBDA match :
           IF match.err # "" \/ ~ match.m THEN match
           ELSE match_children(h, pattern, t, i + 1, wildcards \o match.w))

\* macro_try_match: pattern.data and t.data throw on an empty slot
macro_try_match(h, pattern, t) ==
  IF pattern = null THEN type_error
  ELSE IF h[pattern].data = "_" THEN matched(<<t>>)
  ELSE IF t = null THEN type_error
  ELSE IF h[pattern].data # h[t].data \/ Len(h[pattern].ch) # Len(h[t].ch) THEN unmatched
  ELSE match_children(h, pattern, t, 0, <<>>)

RECURSIVE call(_, _, _, _)
RECURSIVE rmap(_, _, _, _)
RECURSIVE map(_, _, _, _, _, _)
RECURSIVE macro_expand(_, _, _, _, _, _, _)
RECURSIVE apply(_, _, _, _, _)
RECURSIVE visit(_, _, _, _, _, _)

\* map, with the callback function (n) {return n && n.rmap(f)} of rmap: n is the node
\* being built, i the loop index; n.push(f(this[i], i) || this[i])
map(h, this, f, st, n, i) ==
  IF i >= Len(h[this].ch) THEN ret(h, n, st)
  ELSE LET c == h[this].ch[i + 1]
       IN  seq(IF c # null THEN rmap(h, c, f, st) ELSE ret(h, null, st), LAMBDA a :
               IF a.err # "" THEN a
               ELSE map(push(a.h, n, IF a.r # null THEN a.r ELSE c), this, f, a.st, n, i + 1))

\* a variant of rmap that goes on into the node that f returned
rmap_descends(h, this, f, st) ==
  seq(call(h, f, st, this), LAMBDA a :
      IF a.err # "" THEN a
      ELSE IF a.r = null \/ a.r = this
           THEN map(syntax_node(a.h, a.h[this].data), this, f, a.st, fresh(a.h), 0)
           ELSE map(syntax_node(a.h, a.h[a.r].data), a.r, f, a.st, fresh(a.h), 0))

\* rmap: var r = f(this); return ! r || r === this ? this.map(...) : r
rmap(h, this, f, st) ==
  seq(call(h, f, st, this), LAMBDA a :
      IF a.err # "" THEN a
      ELSE IF a.r = null \/ a.r = this
           THEN map(syntax_node(a.h, a.h[this].data), this, f, a.st, fresh(a.h), 0)
           ELSE a)

\* a variant of s that uses the first entry of the list for every occurrence
s_first_entry(h, this, data, xs, st) ==
  seq(rmap(h, this, [kind |-> "s", data |-> data,
                     xs |-> IF xs.array /\ Len(xs.xs) > 0 THEN [array |-> FALSE, x |-> xs.xs[1]] ELSE xs],
           [st EXCEPT !.i = 0]), LAMBDA a :
      [a EXCEPT !.st.i = st.i])

\* s: the callbacks n.data === data && xs[i++ % xs.length] (xs an array) and
\* n.data === data && xs (xs a node) are the descriptor [kind |-> "s", ...]; i is local
s(h, this, data, xs, st) ==
  seq(rmap(h, this, [kind |-> "s", data |-> data, xs |-> xs], [st EXCEPT !.i = 0]), LAMBDA a :
      [a EXCEPT !.st.i = st.i])

\* macro_expand: t.rmap(function (n) {...}); depth counts the macroexpand calls on the stack
macro_expand(h, t, macros, expanders, context, st, depth) ==
  IF depth > MaxDepth THEN throw(h, st, "RangeError")
  ELSE rmap(h, t, [kind |-> "macro_expand", macros |-> macros, expanders |-> expanders,
                   context |-> context, pass |-> st.npass + 1, depth |-> depth],
            [st EXCEPT !.npass = @ + 1])

\* macroexpand (line 879) of engine e
macroexpand(h, e, t, st, depth) ==
  macro_expand(h, t, st.w.engines[e].macro_patterns, st.w.engines[e].macro_expanders, e, st, depth)

\* a variant of apply in which the wrapper of rmacro returns the expander's output as it is
apply_unexpanded(h, st, x, match, depth) ==
  CASE x.kind = "none" -> ret(h, null, st)
    [] x.kind = "arg" -> ret(h, IF Len(match) > 0 THEN match[1] ELSE null, st)
    [] x.kind = "qs" -> s(h, x.tmpl, "_", [array |-> TRUE, xs |-> match], st)
    [] x.kind = "rmacro" ->
         seq(apply(h, st, x.expander, match, depth), LAMBDA a :
             IF a.err # "" \/ a.r = null THEN a
             ELSE [a EXCEPT !.st.log = Append(@, [k |-> "rmacro", engine |-> x.engine,
                                                  raw |-> a.r, r |-> a.r])])

\* macro: @macro_patterns.push($0), @macro_expanders.push($1), this
macro(w, e, pattern, expander) ==
  [w EXCEPT !.arrays[w.engines[e].macro_patterns] = Append(@, pattern),
            !.arrays[w.engines[e].macro_expanders] = Append(@, expander)]

\* rmacro: the expander is wrapped, and the wrapper is bound to this engine
rmacro(w, e, pattern, expander) ==
  macro(w, e, pattern, [kind |-> "rmacro", expander |-> expander, engine |-> e])

\* x.apply(this, ...): only the expander "defines" refers to this, and the wrapper of
\* rmacro is a bound function, which keeps the this it was bound to
called_on(x, this) == IF x.kind = "defines" THEN [x EXCEPT !.this = this] ELSE x

\* the expander "defines" at work: this.rmacro(pattern, function () {return expansion})
\* on the engine this, then return new this.syntax('null')
defines(h, st, this, match) ==
  LET patterns == st.w.engines[this].macro_patterns
  IN  ret(syntax_node(h, "null"), fresh(h),
          [st EXCEPT !.w = rmacro(st.w, this, match[1], [kind |-> "returns", tree |-> match[2]]),
                     !.log = Append(@, [k |-> "register", engine |-> this, macros |-> patterns,
                                        i |-> Len(st.w.arrays[patterns])])])

\* expander.apply(context, match) for the expanders of the model:
\*   "none"     function () {return false}
\*   "arg"      function (x) {return x}
\*   "qs"       function () {return tmpl.s('_', Array.prototype.slice.call(arguments))}
\*   "rmacro"   the wrapper that rmacro builds around an expander (line 876)
\*   "returns"  function () {return tree}
\*   "defines"  function (pattern, expansion) {this.rmacro(pattern, function () {return expansion});
\*                                             return new this.syntax('null')},
\*              which registers a macro as the expander of defmacro does (lines 982-983)
apply(h, st, x, match, depth) ==
  CASE x.kind = "none" -> ret(h, null, st)
    [] x.kind = "arg" -> ret(h, IF Len(match) > 0 THEN match[1] ELSE null, st)
    [] x.kind = "qs" -> s(h, x.tmpl, "_", [array |-> TRUE, xs |-> match], st)
    [] x.kind = "returns" -> ret(h, x.tree, st)
    [] x.kind = "defines" -> defines(h, st, x.this, match)
    [] x.kind = "rmacro" ->
         seq(apply(h, st, called_on(x.expander, x.engine), match, depth), LAMBDA a :
             IF a.err # "" \/ a.r = null THEN a
             ELSE seq(macroexpand(a.h, x.engine, a.r, a.st, depth + 1), LAMBDA b :
                      IF b.err # "" THEN b
                      ELSE [b EXCEPT !.st.log = Append(@, [k |-> "rmacro", engine |-> x.engine,
                                                           raw |-> a.r, r |-> b.r])]))

\* a variant of visit that ends at the first pair whose pattern matches
visit_first_match(h, f, st, n, i, l) ==
  LET macros == st.w.arrays[f.macros]
      expanders == st.w.arrays[f.expanders]
      macro_i == IF i < Len(macros) THEN macros[i + 1] ELSE null
  IN  IF ~ (i < l /\ macro_i # null) THEN ret(h, null, st)
      ELSE seq(macro_try_match(h, macro_i, n), LAMBDA match :
               IF match.err # "" THEN throw(h, st, match.err)
               ELSE IF ~ match.m THEN visit(h, f, st, n, i + 1, l)
               ELSE seq(apply(h, st, expanders[i + 1], match.w, f.depth), LAMBDA a :
                        IF a.err # "" THEN a
                        ELSE [a EXCEPT !.st.log = Append(@, [k |-> "expand", pass |-> f.pass,
                                                             n |-> n, i |-> i, r |-> a.r])]))

\* the callback of macro_expand (lines 711-712) at node n, from pair i on; l is macros.length;
\* the log gets an entry for every pair whose pattern is tried on n
visit(h, f, st, n, i, l) ==
  LET macros == st.w.arrays[f.macros]
      expanders == st.w.arrays[f.expanders]
      macro_i == IF i < Len(macros) THEN macros[i + 1] ELSE null
  IN  IF ~ (i < l /\ macro_i # null) THEN ret(h, null, st)
      ELSE seq(macro_try_match(h, macro_i, n), LAMBDA match :
           seq([st EXCEPT !.log = Append(@, [k |-> "try", pass |-> f.pass, n |-> n,
                                             macros |-> f.macros, i |-> i])], LAMBDA st1 :
               IF match.err # "" THEN throw(h, st1, match.err)
               ELSE IF ~ match.m THEN visit(h, f, st1, n, i + 1, l)
               ELSE IF ~ (i < Len(expanders)) THEN throw(h, st1, "TypeError")
               ELSE seq(apply(h, st1, called_on(expanders[i + 1], f.context), match.w, f.depth), LAMBDA a :
                    seq([a EXCEPT !.st.log = Append(@, [k |-> "expand", pass |-> f.pass,
                                                        n |-> n, i |-> i, r |-> a.r])], LAMBDA b :
                        IF a.err # "" THEN a
                        ELSE IF b.r # null THEN b
                        ELSE visit(b.h, f, b.st, n, i + 1, l)))))

\* f(n) for a callback descriptor f; every call is logged
\*   "compile" the function that compile hands to rmap: f.environment, f.s the symbol
\*   "table"  a function of n.data: f.t[data].ret is "node" (return the node f.t[data].n),
\*            "this" (return n) or "child" (return n[0]); no entry: return a falsy value
call(h, f, st, n) ==
  seq([st EXCEPT !.log = Append(@, [k |-> "call", f |-> f.kind, n |-> n,
                                    pass |-> IF f.kind = "macro_expand" THEN f.pass ELSE 0])], LAMBDA st1 :
      CASE f.kind = "table" ->
             LET d == h[n].data
             IN  IF d \notin DOMAIN f.t THEN ret(h, null, st1)
                 ELSE ret(h, CASE f.t[d].ret = "node" -> f.t[d].n
                               [] f.t[d].ret = "this" -> n
                               [] f.t[d].ret = "child" -> child(h, n, 0), st1)
        [] f.kind = "s" ->
             IF h[n].data # f.data THEN ret(h, null, st1)
             ELSE IF ~ f.xs.array THEN ret(h, f.xs.x, st1)
             ELSE IF Len(f.xs.xs) = 0 THEN ret(h, null, [st1 EXCEPT !.i = @ + 1])
             ELSE ret(h, f.xs.xs[(st1.i % Len(f.xs.xs)) + 1], [st1 EXCEPT !.i = @ + 1])
        [] f.kind = "macro_expand" -> visit(h, f, st1, n, 0, Len(st1.w.arrays[f.macros]))
        [] f.kind = "compile" ->
             \* line 795: has(environment, n.data) &&
             \*           new syntax_node('(', new syntax_node('.', new syntax_node(s), n))
             IF ~ has(f.environment, h[n].data) THEN ret(h, null, st1)
             ELSE LET b == fresh(h)
                      dot == b + 1
                      group == b + 2
                      h1 == syntax_node(h, f.s)
                      h2 == append(append(syntax_node(h1, "."), dot, b), dot, n)
                      h3 == append(syntax_node(h2, "("), group, dot)
                  IN  ret(h3, group, st1))

RECURSIVE flatten_right(_, _, _, _)
\* line 227: for (var i = this; i && i.data === d; i = i[1]) n.push(i[0]); n.push(i)
flatten_right(h, n, i, d) ==
  IF i # null /\ h[i].data = d THEN flatten_right(push(h, n, child(h, i, 0)), n, child(h, i, 1), d)
  ELSE push(h, n, i)

RECURSIVE flatten_left(_, _, _, _)
\* line 228: for (var i = this, ns = []; i.data === d; i = i[0]) i[1] && ns.push(i[1]); ns.push(i)
\* i.data throws when the chain ends in an empty slot
flatten_left(h, i, d, ns) ==
  IF i = null THEN [err |-> "TypeError", ns |-> ns]
  ELSE IF h[i].data = d
       THEN flatten_left(h, child(h, i, 0), d, IF child(h, i, 1) # null THEN Append(ns, child(h, i, 1)) ELSE ns)
       ELSE [err |-> "", ns |-> Append(ns, i)]

RECURSIVE push_reversed(_, _, _, _)
\* line 229: for (i = ns.length - 1; i >= 0; --i) n.push(ns[i])
push_reversed(h, n, ns, i) == IF i >= 0 THEN push_reversed(push(h, n, ns[i + 1]), n, ns, i - 1) ELSE h

\* flatten
flatten(h, this) ==
  LET d == h[this].data
      n == fresh(h)
      h1 == syntax_node(h, d)
  IN  IF ~ (has(parse_lr, d) /\ Len(h[this].ch) > 0) THEN [h |-> h, r |-> this, err |-> ""]
      ELSE IF has(parse_associates_right, d)
           THEN [h |-> flatten_right(h1, n, this, d), r |-> n, err |-> ""]
           ELSE LET c == flatten_left(h1, this, d, <<>>)
                IN  IF c.err # "" THEN [h |-> h1, r |-> null, err |-> c.err]
                    ELSE [h |-> push_reversed(h1, n, c.ns, Len(c.ns) - 1), r |-> n, err |-> ""]

(***************************************************************************)
(* Engines (caterwaul.js 845-853, 870-879, 930).  An engine has the arrays *)
(* macro_patterns and macro_expanders; w.arrays holds the arrays, so that   *)
(* two engines can be told to share an array or to have one each.           *)
(***************************************************************************)
\* a variant of shallow_copy that hands back the array itself
shallow_copy_same(w, a) == [w |-> w, a |-> a]

\* shallow_copy of the array with reference a: Array.prototype.slice.call(x), a new
\* array (reference .a) with the same elements
shallow_copy(w, a) == [w |-> [w EXCEPT !.arrays = Append(@, @[a])], a |-> Len(w.arrays) + 1]

\* copy_of(f): a new engine, each attribute associated again with its behavior;
\* macro_patterns and macro_expanders have the behavior shallow
copy_of(w, f) ==
  LET p == shallow_copy(w, w.engines[f].macro_patterns)
      x == shallow_copy(p.w, w.engines[f].macro_expanders)
  IN  [x.w EXCEPT !.engines = Append(@, [macro_patterns |-> p.a, macro_expanders |-> x.a])]

\* the global engine: shallow('macro_patterns', []).shallow('macro_expanders', [])
caterwaul == [arrays |-> << <<>>, <<>> >>, engines |-> << [macro_patterns |-> 1, macro_expanders |-> 2] >>]

\* clone() without arguments
clone(w, e) == copy_of(w, e)

(***************************************************************************)
(* Source texts.  Programs are texts that the host JavaScript engine       *)
(* accepts as a function body; Malformed are texts it rejects; Strs(n) are *)
(* all texts of at most n characters of Alphabet.                          *)
(***************************************************************************)
MaxLen == 3

Alphabet == "a -/*\";()"

Programs == <<
  "x + 1", "a - -b", "f(x)\na\nb", "a, b, c", "a = b = c", "if (a) b; else c",
  "a ? b : c", "f()", "a;", ";a", "for(;;){}", "switch(a){}b;",
  "if (a) /r/.test(x)", "0.5.toString()", "function f(x) {return x}",
  "a /* c */ + b", "a // c\n+ b", "typeof a", "-a", "a++", "++a", "c ? x = 1 : y",
  "x[1](2)", "a.b.c", "a ", "\"s\" + 't'", "new f(x)", "a * b + c", "a + b * c",
  "a - b - c", "do a; while (b)", "try {a} catch (e) {b}", "var a = 1, b = 2;",
  "x = /a\\/b/g", "1e5 + .5 - 0x1f", "a + ++b", "- -a", "if (a) {b} else {c}",
  "while (a) b", "a ? b : c ? d : e", "x = function (a, b) {return a + b}",
  "return a", "a.b(c)", "a[0]" >>

Malformed == << "/*a", "\"a", "/a", "a ~ b", ".5.5", ")", "a b" >>

RECURSIVE Strs(_)
Strs(n) ==
  IF n = 0 THEN {""}
  ELSE LET S == Strs(n - 1)
       IN  S \cup {x \o SubSeq(Alphabet, k, k) : x \in S, k \in 1..Len(Alphabet)}

Sources == Strs(MaxLen) \cup Range(Programs) \cup Range(Malformed)

\* the host accepts the text (it is one of the listed programs)
well_formed(src) == src \in Range(Programs)

(***************************************************************************)
(* Specification SpecParse: parse(s) step by step for a source text s,     *)
(* then serialize() of the returned tree and parse of that text.           *)
(*   pv   the locals of the running parse                                  *)
(*   out  round 1: parsing s; round 2: parsing the serialized text, with   *)
(*        the first tree (as a value) and its root in out.first, out.root  *)
(*   cw   not used                                                         *)
(***************************************************************************)
InitParse ==
  /\ \E src \in Sources : pv = parse_start(src)
  /\ heap = <<>>
  /\ out = [op |-> "parse", round |-> 1, src |-> pv.s, root |-> null, first |-> <<>>, text |-> ""]
  /\ cw = <<>>

\* one iteration of the main lex loop
Lex ==
  /\ pv.pc = "lex"
  /\ LET r == lex_token(heap, pv) IN heap' = r.h /\ pv' = r.v
  /\ UNCHANGED <<out, cw>>

\* one iteration of the block comment scan
CommentScan ==
  /\ pv.pc = "comment"
  /\ LET r == comment_scan(heap, pv) IN heap' = r.h /\ pv' = r.v
  /\ UNCHANGED <<out, cw>>

\* one iteration of the fold loop
Fold ==
  /\ pv.pc = "fold"
  /\ LET r == fold_step(heap, pv) IN heap' = r.h /\ pv' = r.v
  /\ UNCHANGED <<out, cw>>

\* one iteration of the inferred-semicolon loop, or its end
InferSemicolons ==
  /\ pv.pc = "semi"
  /\ LET r == semi_step(heap, pv) IN heap' = r.h /\ pv' = r.v
  /\ UNCHANGED <<out, cw>>

\* one iteration of the invocation-flattening loop, or its end
FlattenInvocations ==
  /\ pv.pc = "invoc"
  /\ LET r == invoc_step(heap, pv) IN heap' = r.h /\ pv' = r.v
  /\ UNCHANGED <<out, cw>>

\* root discovery and return
Root ==
  /\ pv.pc = "root"
  /\ LET r == root_step(heap, pv) IN heap' = r.h /\ pv' = r.v
  /\ UNCHANGED <<out, cw>>

\* parse(parse(s).serialize()), started once parse(s) has returned
Reparse ==
  /\ pv.pc = "done"
  /\ out.round = 1
  /\ LET text == serialize(heap, pv.head)
     IN  /\ out' = [out EXCEPT !.round = 2, !.root = pv.head,
                               !.first = tree(heap, pv.head), !.text = text]
         /\ pv' = parse_start(text)
  /\ UNCHANGED <<heap, cw>>

NextParse ==
  \/ Lex \/ CommentScan \/ Fold \/ InferSemicolons \/ FlattenInvocations \/ Root
  \/ Reparse

SpecParse == InitParse /\ [][NextParse]_vars

\* the interpreter keeps running: a block comment scan that can go on does go on
SpecParseFair == SpecParse /\ WF_vars(CommentScan)

(***************************************************************************)
(* Claims on the parser (specifications SpecParse and SpecParseFair).      *)
(***************************************************************************)
\* C7: lex termination.  For every source text the lexing loop of parse halts: in
\* particular, whenever the loop has entered the scan of a block comment (terminated or
\* not) it leaves that scan again, to go on with the next token or to end.
C7_LexHalts == (pv.pc = "comment") ~> (pv.pc # "comment")

\* C8: parse totality.  For every well-formed source text parse returns a root (it
\* does not throw), and no node reachable from the returned root, the root included,
\* still has a left or right sibling link.
C8_ParseTotality ==
  (out.op = "parse" /\ out.round = 1 /\ well_formed(out.src)) =>
     /\ pv.pc # "error"
     /\ pv.pc = "done" => stray_links(heap, pv.head) = {}

\* C9: round-trip stability.  For every accepted source text s, parse of the
\* serialization of parse(s) returns, and returns the same tree (same data and same
\* children, recursively) as parse(s).
C9_RoundTrip ==
  (out.op = "parse" /\ out.round = 2 /\ well_formed(out.src)) =>
     /\ pv.pc # "error"
     /\ pv.pc = "done" => tree(heap, pv.head) = out.first

(***************************************************************************)
(* Specification SpecTree: one call of a tree operation on a parsed tree.  *)
(* The page first parses the quoted trees QuoteSources (cw.qs holds their  *)
(* roots), then a subject text; then it calls rmap, s, flatten,            *)
(* macro_try_match or macro_expand once.                                   *)
(*   pv   the locals at the end of the last parse                          *)
(*   out  the last call: op, its receiver t and argument arg, the result r *)
(*        (m for macro_try_match), the error thrown, the callback log, and *)
(*        size, the number of nodes before the call                        *)
(*   cw   qs: the quoted trees; w: the engines and arrays                  *)
(***************************************************************************)
QuoteSources == << "a", "b", "c", "f(_)", "_ + _", "f(x)", "_", "f()", "f(b)", "f(a)" >>

TreeSources == << "_ + _ * _ - _", "f(_, _)", "a, b, c", "a = b = c", "a - b - c", ";a",
                  "for(;;){}", "f()", "f(x)", "f(b)", "x + 1", "a + b", "a;", "f(a + b)", "_",
                  "a + _ + a", "f(a)(b)", "a, b", "f(f(a))", "a = b", "f(a) + f(b)" >>

\* the longest replacement list passed to s
MaxXs == 3

\* the most pairs passed to macro_expand, and the most pairs in an engine's registry
MaxMacros == 2

\* the entries of a callback table
returns(n) == [ret |-> "node", n |-> n]

returns_this == [ret |-> "this"]

returns_child == [ret |-> "child"]

\* the callbacks passed to rmap, given the quoted trees q
Callbacks(q) ==
  { [kind |-> "table", t |-> tb] : tb \in
      { <<>>,
        "+" :> returns(q[1]),
        "a" :> returns(q[2]) @@ "x" :> returns(q[6]),
        "+" :> returns_this @@ "a" :> returns(q[3]) @@ "()" :> returns_child,
        "()" :> returns(q[5]) @@ "," :> returns_child @@ "=" :> returns_this @@ "_" :> returns(q[4]) } }

\* the second arguments passed to s
Replacements(q) ==
  { [array |-> TRUE, xs |-> SubSeq(q, 1, k)] : k \in 0..MaxXs } \cup
  { [array |-> FALSE, x |-> q[k]] : k \in {1, 4} }

\* the expanders passed to macro_expand and to macro and rmacro
Expanders(q) == { [kind |-> "none"], [kind |-> "arg"], [kind |-> "qs", tmpl |-> q[2]],
                  [kind |-> "qs", tmpl |-> q[5]] }

\* the (pattern, expander) pairs passed to macro_expand
Pairs(q) == { [pattern |-> q[k], expander |-> x] : k \in {1, 4, 7}, x \in Expanders(q) }

RECURSIVE PairLists(_, _)
\* the lists of at most n pairs
PairLists(q, n) ==
  IF n = 0 THEN {<<>>}
  ELSE LET L == PairLists(q, n - 1) IN L \cup {Append(ps, x) : ps \in L, x \in Pairs(q)}

\* no call yet
no_call(op, src, t) ==
  [op |-> op, src |-> src, t |-> t, arg |-> <<>>, r |-> null, m |-> [m |-> FALSE, w |-> <<>>], err |-> "",
   log |-> <<>>, size |-> 0]

InitTree ==
  /\ heap = <<>>
  /\ pv = parse_start("")
  /\ out = no_call("load", "", null)
  /\ cw = [qs |-> <<>>, w |-> caterwaul]

\* the page parses its next quoted tree
Quote ==
  /\ out.op = "load"
  /\ Len(cw.qs) < Len(QuoteSources)
  /\ \E a \in {parse(heap, QuoteSources[Len(cw.qs) + 1])} :
         /\ heap' = a.h
         /\ pv' = a.v
         /\ cw' = [cw EXCEPT !.qs = Append(@, a.v.head)]
  /\ UNCHANGED out

\* parse(src) for the subject text
Parse ==
  /\ out.op = "load"
  /\ Len(cw.qs) = Len(QuoteSources)
  /\ \E k \in DOMAIN TreeSources :
       \E a \in {parse(heap, TreeSources[k])} :
           /\ heap' = a.h
           /\ pv' = a.v
           /\ out' = no_call("parse", TreeSources[k], a.v.head)
  /\ UNCHANGED cw

\* out.t.rmap(f)
Rmap ==
  /\ out.op = "parse"
  /\ \E f \in Callbacks(cw.qs) :
       \E a \in {rmap(heap, out.t, f, st0(cw.w))} :
           /\ heap' = a.h
           /\ out' = [out EXCEPT !.op = "rmap", !.arg = f, !.r = a.r, !.err = a.err,
                                 !.log = a.st.log, !.size = Len(heap)]
  /\ UNCHANGED <<pv, cw>>

\* out.t.s(data, xs)
S ==
  /\ out.op = "parse"
  /\ \E data \in {"_", "a"}, xs \in Replacements(cw.qs) :
       \E a \in {s(heap, out.t, data, xs, st0(cw.w))} :
           /\ heap' = a.h
           /\ out' = [out EXCEPT !.op = "s", !.arg = [data |-> data, xs |-> xs], !.r = a.r,
                                 !.err = a.err, !.log = a.st.log, !.size = Len(heap)]
  /\ UNCHANGED <<pv, cw>>

\* n.flatten() for a node n of the subject
Flatten ==
  /\ out.op = "parse"
  /\ \E n \in nodes_under(heap, out.t) :
       \E a \in {flatten(heap, n)} :
           /\ heap' = a.h
           /\ out' = [out EXCEPT !.op = "flatten", !.arg = n, !.r = a.r, !.err = a.err,
                                 !.size = Len(heap)]
  /\ UNCHANGED <<pv, cw>>

\* a variant of TryMatch in which the match takes the last child off the subject
TryMatch_consuming ==
  /\ out.op = "parse"
  /\ \E k \in DOMAIN cw.qs, n \in nodes_under(heap, out.t) :
       \E a \in {macro_try_match(heap, cw.qs[k], n)} :
           /\ out' = [out EXCEPT !.op = "try_match", !.arg = [pattern |-> cw.qs[k], n |-> n],
                                 !.m = [m |-> a.m, w |-> a.w], !.err = a.err, !.size = Len(heap)]
           /\ heap' = IF a.m /\ Len(heap[n].ch) > 0 THEN pop(heap, n) ELSE heap
  /\ UNCHANGED <<pv, cw>>

\* macro_try_match(pattern, n) for a quoted pattern and a node n of the subject
TryMatch ==
  /\ out.op = "parse"
  /\ \E k \in DOMAIN cw.qs, n \in nodes_under(heap, out.t) :
       \E a \in {macro_try_match(heap, cw.qs[k], n)} :
           out' = [out EXCEPT !.op = "try_match", !.arg = [pattern |-> cw.qs[k], n |-> n],
                              !.m = [m |-> a.m, w |-> a.w], !.err = a.err, !.size = Len(heap)]
  /\ UNCHANGED <<heap, pv, cw>>

\* macro_expand(out.t, macros, expanders, context) with two new arrays
MacroExpand ==
  /\ out.op = "parse"
  /\ \E ps \in PairLists(cw.qs, MaxMacros) :
       \E w \in {[cw.w EXCEPT !.arrays = @ \o << [k \in DOMAIN ps |-> ps[k].pattern],
                                                [k \in DOMAIN ps |-> ps[k].expander] >>]} :
       \E a \in {macro_expand(heap, out.t, Len(w.arrays) - 1, Len(w.arrays), 1, st0(w), 0)} :
           /\ heap' = a.h
           /\ cw' = [cw EXCEPT !.w = a.st.w]
           /\ out' = [out EXCEPT !.op = "macro_expand", !.arg = ps, !.r = a.r, !.err = a.err,
                                 !.log = a.st.log, !.size = Len(heap)]
  /\ UNCHANGED pv

NextTree == \/ Quote \/ Parse \/ Rmap \/ S \/ Flatten \/ TryMatch \/ MacroExpand

SpecTree == InitTree /\ [][NextTree]_vars

(***************************************************************************)
(* Claims on the tree operations (specification SpecTree).  Positions are  *)
(* sequences of child indices (from 1) leading down from a root.           *)
(***************************************************************************)
RECURSIVE Paths(_, _)
\* the positions of the nodes under n
Paths(h, n) ==
  IF n = null THEN {}
  ELSE {<<>>} \cup UNION {{<<k>> \o p : p \in Paths(h, h[n].ch[k])} : k \in 1..Len(h[n].ch)}

RECURSIVE node_at(_, _, _)
\* the node at position p under n (null when there is none)
node_at(h, n, p) ==
  IF p = <<>> \/ n = null THEN n
  ELSE IF p[1] > Len(h[n].ch) THEN null
  ELSE node_at(h, h[n].ch[p[1]], Tail(p))

\* position p comes before position q in pre-order, children left to right
before(p, q) ==
  \/ Len(p) < Len(q) /\ SubSeq(q, 1, Len(p)) = p
  \/ \E k \in 1..Len(p) : k <= Len(q) /\ SubSeq(p, 1, k - 1) = SubSeq(q, 1, k - 1) /\ p[k] < q[k]

\* the positions of P in pre-order
pre_order(P) ==
  [i \in 1..Cardinality(P) |-> CHOOSE p \in P : Cardinality({q \in P : before(q, p)}) = i - 1]

\* y is a node made by the call (not one of the first size nodes) with the data and
\* the number of children of x, and an empty slot wherever x has one
is_copy(h, x, y, size) ==
  /\ y > size
  /\ h[y].data = h[x].data
  /\ Len(h[y].ch) = Len(h[x].ch)
  /\ \A k \in 1..Len(h[x].ch) : h[x].ch[k] = null => h[y].ch[k] = null

\* the nodes on which the callback of the last call (rmap or macro_expand) was called
calls == LET c == SelectSeq(out.log, LAMBDA e : e.k = "call" /\ e.f # "s")
         IN  [k \in DOMAIN c |-> c[k].n]

\* what the callback of the last call returned on node x: for rmap the table says it,
\* for macro_expand it is the truthy result of an expander on x, if any
answer(x) ==
  IF out.op = "rmap" THEN call(heap, out.arg, st0(no_engines), x).r
  ELSE LET e == SelectSeq(out.log, LAMBDA e : e.k = "expand" /\ e.n = x /\ e.r # null)
       IN  IF e = <<>> THEN null ELSE e[1].r

\* the callback returned a node distinct from x
replaced(x) == answer(x) # null /\ answer(x) # x

\* the positions of the receiver that lie under no replaced node
reached ==
  {p \in Paths(heap, out.t) :
     \A k \in 0..(Len(p) - 1) : ~ replaced(node_at(heap, out.t, SubSeq(p, 1, k)))}

\* the result holds, at every reached position, the replacement or a copy of the node
result_follows ==
  \A p \in reached :
     LET x == node_at(heap, out.t, p)
         y == node_at(heap, out.r, p)
     IN  IF replaced(x) THEN y = answer(x) ELSE is_copy(heap, x, y, out.size)

\* C1: rmap(f) calls f on the receiver first; where f returns a distinct node that node
\* is the result and f is called neither below the replaced node nor on the replacement;
\* elsewhere the result is a new node with the same data whose children are the results
\* for the children, visited left to right in pre-order.  The same holds for
\* macro_expand and the expanders' results (up to the point where it throws).
C1_RmapCutoff ==
  out.op \in {"rmap", "macro_expand"} =>
    LET expected == [k \in DOMAIN pre_order(reached) |-> node_at(heap, out.t, pre_order(reached)[k])]
    IN  IF out.err = ""
        THEN /\ calls = expected
             /\ calls[1] = out.t
             /\ result_follows
        ELSE /\ out.op = "macro_expand"
             /\ Len(calls) <= Len(expected)
             /\ calls = SubSeq(expected, 1, Len(calls))

\* rmap has replaced a node that has children, has copied another one, and the
\* callback has been called at least three times
C1_Witness ==
  /\ out.op = "rmap"
  /\ out.err = ""
  /\ Len(calls) >= 3
  /\ \E p \in reached : LET x == node_at(heap, out.t, p) IN replaced(x) /\ Len(heap[x].ch) > 0
  /\ \E p \in reached : LET x == node_at(heap, out.t, p) IN ~ replaced(x) /\ Len(heap[x].ch) > 0

\* the expand events of the log between the call on the k-th visited node and the next call
tried(k) ==
  LET at == {j \in DOMAIN out.log : out.log[j].k = "call" /\ out.log[j].f = "macro_expand"}
      from == CHOOSE j \in at : Cardinality({i \in at : i < j}) = k - 1
      to == IF \E j \in at : j > from THEN CHOOSE j \in at : j > from /\ \A i \in at : i > from => j <= i
            ELSE Len(out.log) + 1
  IN  SelectSeq(SubSeq(out.log, from + 1, to - 1), LAMBDA e : e.k = "expand")

\* the pairs of the last macro_expand call whose pattern matches node x
matching(x) == {i \in 0..(Len(out.arg) - 1) : macro_try_match(heap, out.arg[i + 1].pattern, x).m}

\* C2: at each visited node macro_expand tries the matching pairs in ascending order,
\* stops at the first truthy result and not at a falsy one, replaces the node by that
\* result, and keeps the node and visits its children when no pair yields a node.
C2_PairOrder ==
  out.op = "macro_expand" =>
    /\ \A k \in DOMAIN calls :
         LET es == tried(k)
             aborted == out.err # "" /\ k = Len(calls)
         IN  /\ \A j \in DOMAIN es : es[j].n = calls[k] /\ es[j].i \in matching(calls[k])
             /\ \A j \in DOMAIN es : j < Len(es) => es[j].i < es[j + 1].i /\ es[j].r = null
             /\ \A i \in matching(calls[k]) :
                  \/ \E j \in DOMAIN es : es[j].i = i
                  \/ \E j \in DOMAIN es : es[j].i < i /\ es[j].r # null
                  \/ aborted
    /\ out.err = "" => result_follows

\* a node at which the first pair matched and returned a falsy value and the second
\* pair returned the replacement
C2_Witness ==
  /\ out.op = "macro_expand"
  /\ out.err = ""
  /\ \E k \in DOMAIN calls :
       /\ Len(tried(k)) = 2
       /\ tried(k)[1].r = null
       /\ tried(k)[2].r # null
       /\ node_at(heap, out.r, CHOOSE p \in reached : node_at(heap, out.t, p) = calls[k]) = tried(k)[2].r

RECURSIVE captures(_, _)
RECURSIVE captures_from(_, _, _)
\* the captures of the children of P against those of T from child k on
captures_from(P, T, k) ==
  IF k > Len(P[2]) THEN [m |-> TRUE, w |-> <<>>]
  ELSE LET c == captures(P[2][k], T[2][k])
           d == captures_from(P, T, k + 1)
       IN  IF ~ c.m THEN c ELSE IF ~ d.m THEN d ELSE [m |-> TRUE, w |-> c.w \o d.w]

\* what the match of pattern P against subject T is to return (P, T trees as values):
\* m says whether it is a list, w is the list
captures(P, T) ==
  IF P # <<>> /\ P[1] = "_" THEN [m |-> TRUE, w |-> <<T>>]
  ELSE IF P = <<>> \/ T = <<>> THEN [m |-> FALSE, w |-> <<>>]
  ELSE IF P[1] # T[1] \/ Len(P[2]) # Len(T[2]) THEN [m |-> FALSE, w |-> <<>>]
  ELSE captures_from(P, T, 1)

\* C3: macro_try_match returns the one-element list of the subject for a '_' pattern;
\* otherwise null unless data and number of children agree, and then the captures of the
\* children in order, or null when a child fails; it returns (it does not throw).
C3_TryMatch ==
  out.op = "try_match" =>
    /\ out.err = ""
    /\ LET c == captures(tree(heap, out.arg.pattern), tree(heap, out.arg.n))
       IN  /\ out.m.m = c.m
           /\ [k \in DOMAIN out.m.w |-> tree(heap, out.m.w[k])] = c.w

\* the positions of the leaves of t with the given data, in pre-order
holes(h, t, data) ==
  pre_order({p \in Paths(h, t) : h[node_at(h, t, p)].data = data /\ Len(h[node_at(h, t, p)].ch) = 0})

\* the entry of the second argument xs of s for the k-th occurrence (k from 0)
entry(xs, k) ==
  IF ~ xs.array THEN xs.x
  ELSE IF Len(xs.xs) = 0 THEN null
  ELSE xs.xs[(k % Len(xs.xs)) + 1]

\* C6: t.s(data, xs) returns a tree in which the k-th leaf with that data is entry
\* k mod |xs| of the list xs (the node xs when xs is a node) and every other node is a
\* copy with its data at its position; no node that existed before the call changes.
C6_Substitute ==
  [][out'.op = "s" =>
       LET hs == holes(heap, out'.t, out'.arg.data)
       IN  /\ out'.err = ""
           /\ SubSeq(heap', 1, Len(heap)) = heap
           /\ \A p \in Paths(heap, out'.t) :
                LET x == node_at(heap, out'.t, p)
                    y == node_at(heap', out'.r, p)
                    k == IF \E j \in DOMAIN hs : hs[j] = p THEN CHOOSE j \in DOMAIN hs : hs[j] = p ELSE 0
                IN  IF k > 0 /\ entry(out'.arg.xs, k - 1) # null
                    THEN y = entry(out'.arg.xs, k - 1)
                    ELSE is_copy(heap', x, y, Len(heap))]_vars

\* s has been called with a list of three trees on a tree with at least four '_'
\* leaves, and the fourth leaf has become the first entry again
C6_Witness ==
  /\ out.op = "s"
  /\ out.err = ""
  /\ out.arg.data = "_"
  /\ out.arg.xs.array
  /\ Len(out.arg.xs.xs) = 3
  /\ Len(holes(heap, out.t, "_")) >= 4
  /\ node_at(heap, out.r, holes(heap, out.t, "_")[4]) = out.arg.xs.xs[1]
  /\ node_at(heap, out.r, holes(heap, out.t, "_")[3]) = out.arg.xs.xs[3]

RECURSIVE operands(_, _, _, _)
\* the operands of the maximal chain of operator d at n, in source order; the chain
\* runs down child 1 when d associates right, down child 0 otherwise
operands(h, n, d, right) ==
  IF n = null THEN <<>>
  ELSE IF h[n].data # d THEN <<n>>
  ELSE IF right THEN operands(h, child(h, n, 0), "", right) \o operands(h, child(h, n, 1), d, right)
  ELSE operands(h, child(h, n, 0), d, right) \o operands(h, child(h, n, 1), "", right)

\* C10: flatten on a node n with children whose data d is an operator of parse_lr
\* returns a new node with data d whose children are the operands of the chain in
\* source order, and changes no node that existed before the call.
C10_Flatten ==
  [][(/\ out'.op = "flatten"
      /\ has(parse_lr, heap[out'.arg].data)
      /\ Len(heap[out'.arg].ch) > 0) =>
       /\ out'.err = ""
       /\ out'.r > Len(heap)
       /\ heap'[out'.r].data = heap[out'.arg].data
       /\ heap'[out'.r].ch = operands(heap, out'.arg, heap[out'.arg].data,
                                      has(parse_associates_right, heap[out'.arg].data))
       /\ SubSeq(heap', 1, Len(heap)) = heap]_vars

(***************************************************************************)
(* Specification SpecMacro: engines.  After the quoted trees are parsed,   *)
(* the page registers macros with macro and rmacro, clones engines, and    *)
(* at the end calls e.macroexpand(parse(src)) for an engine e.             *)
(*   out  the last call (see SpecTree); arg.e is the engine called         *)
(*   cw   qs: the quoted trees; w: the engines and their arrays            *)
(***************************************************************************)
\* the most engines (the global one and its clones)
MaxEngines == 2

\* the most calls of macro and rmacro
MaxRegistrations == 2

MacroSources == << "f(b)", "a + f(b)" >>

\* the (pattern, expander) pairs registered: a -> b, f(b) -> f(a) and a -> a
Registered(q) ==
  { [pattern |-> q[1], expander |-> [kind |-> "qs", tmpl |-> q[2]]],
    [pattern |-> q[9], expander |-> [kind |-> "qs", tmpl |-> q[10]]],
    [pattern |-> q[1], expander |-> [kind |-> "qs", tmpl |-> q[1]]] }

\* the patterns and expanders of engine e
registry(w, e) ==
  [patterns |-> w.arrays[w.engines[e].macro_patterns],
   expanders |-> w.arrays[w.engines[e].macro_expanders]]

\* the page is set up and has not yet expanded
configuring == Len(cw.qs) = Len(QuoteSources) /\ out.op \in {"load", "macro", "rmacro", "clone"}

\* the number of calls of macro and rmacro so far
registrations == IF out.op = "load" THEN 0 ELSE out.size

\* e.macro(pattern, expander)
Macro ==
  /\ configuring
  /\ registrations < MaxRegistrations
  /\ \E e \in DOMAIN cw.w.engines, x \in Registered(cw.qs) :
       /\ cw' = [cw EXCEPT !.w = macro(cw.w, e, x.pattern, x.expander)]
       /\ out' = [out EXCEPT !.op = "macro", !.size = registrations + 1,
                             !.arg = [e |-> e, pattern |-> x.pattern, expander |-> x.expander]]
  /\ UNCHANGED <<heap, pv>>

\* e.rmacro(pattern, expander)
Rmacro ==
  /\ configuring
  /\ registrations < MaxRegistrations
  /\ \E e \in DOMAIN cw.w.engines, x \in Registered(cw.qs) :
       /\ cw' = [cw EXCEPT !.w = rmacro(cw.w, e, x.pattern, x.expander)]
       /\ out' = [out EXCEPT !.op = "rmacro", !.size = registrations + 1,
                             !.arg = [e |-> e, pattern |-> x.pattern, expander |-> x.expander]]
  /\ UNCHANGED <<heap, pv>>

\* e.clone()
Clone ==
  /\ configuring
  /\ Len(cw.w.engines) < MaxEngines
  /\ \E e \in DOMAIN cw.w.engines :
       /\ cw' = [cw EXCEPT !.w = clone(cw.w, e)]
       /\ out' = [out EXCEPT !.op = "clone", !.size = registrations, !.r = Len(cw.w.engines) + 1,
                             !.arg = [e |-> e, pattern |-> null, expander |-> [kind |-> "none"]]]
  /\ UNCHANGED <<heap, pv>>

\* e.macroexpand(parse(src))
Macroexpand ==
  /\ configuring
  /\ \E e \in DOMAIN cw.w.engines, k \in DOMAIN MacroSources :
       \E p \in {parse(heap, MacroSources[k])} :
       \E a \in {macroexpand(p.h, e, p.v.head, st0(cw.w), 0)} :
           /\ heap' = a.h
           /\ pv' = p.v
           /\ cw' = [cw EXCEPT !.w = a.st.w]
           /\ out' = [out EXCEPT !.op = "macroexpand", !.src = MacroSources[k], !.t = p.v.head,
                                 !.arg = [e |-> e, pattern |-> null, expander |-> [kind |-> "none"]],
                                 !.r = a.r, !.err = a.err, !.log = a.st.log, !.size = Len(p.h)]

NextMacro == \/ Quote \/ Macro \/ Rmacro \/ Clone \/ Macroexpand

SpecMacro == InitTree /\ [][NextMacro]_vars

(***************************************************************************)
(* Claims on the engines (specification SpecMacro).                        *)
(***************************************************************************)
\* the events of the wrappers of rmacro in the log of the last macroexpand call
wrapped == SelectSeq(out.log, LAMBDA e : e.k = "rmacro")

\* C4 (as stated): the tree that the wrapper of rmacro returns is a fixed point: a
\* further macroexpand of the same engine over it finds no pattern that matches with a
\* truthy expander result.
C4_RmacroFixedPoint ==
  out.op = "macroexpand" =>
    \A k \in DOMAIN wrapped :
       LET a == macroexpand(heap, wrapped[k].engine, wrapped[k].r, st0(cw.w), 0)
       IN  /\ a.err = ""
           /\ \A j \in DOMAIN a.st.log : a.st.log[j].k = "expand" => a.st.log[j].r = null

\* C4 (amended): the tree that the wrapper of rmacro returns is the result of one
\* macroexpand call of the registering engine on the expander's output.
C4_RmacroOnePass ==
  out.op = "macroexpand" =>
    \A k \in DOMAIN wrapped :
       LET a == macroexpand(heap, wrapped[k].engine, wrapped[k].raw, st0(cw.w), 0)
       IN  /\ a.err = ""
           /\ tree(a.h, a.r) = tree(heap, wrapped[k].r)

\* a wrapper has returned a tree that differs from the expander's output
C4_Witness ==
  /\ out.op = "macroexpand"
  /\ out.err = ""
  /\ \E k \in DOMAIN wrapped : tree(heap, wrapped[k].r) # tree(heap, wrapped[k].raw)

\* C5: macro and rmacro on an engine append one pair to that engine's registry and
\* leave every other engine's registry as it was; clone gives the new engine the pairs
\* of the cloned one at the same positions and changes no existing registry.
C5_CloneIsolation ==
  [][/\ out'.op \in {"macro", "rmacro"} =>
          \A e \in DOMAIN cw.w.engines :
             IF e # out'.arg.e THEN registry(cw'.w, e) = registry(cw.w, e)
             ELSE /\ registry(cw'.w, e).patterns = Append(registry(cw.w, e).patterns, out'.arg.pattern)
                  /\ SubSeq(registry(cw'.w, e).expanders, 1, Len(registry(cw.w, e).expanders))
                       = registry(cw.w, e).expanders
                  /\ Len(registry(cw'.w, e).expanders) = Len(registry(cw.w, e).expanders) + 1
     /\ out'.op = "clone" =>
          /\ Len(cw'.w.engines) = Len(cw.w.engines) + 1
          /\ registry(cw'.w, out'.r) = registry(cw.w, out'.arg.e)
          /\ \A e \in DOMAIN cw.w.engines : registry(cw'.w, e) = registry(cw.w, e)]_vars

\* a macro has been registered on a clone whose parent had a pair before the clone
\* call: the clone has that pair first and one more, the parent only the first
C5_Witness ==
  /\ out.op \in {"macro", "rmacro"}
  /\ out.arg.e = 2
  /\ Len(cw.w.engines) = 2
  /\ Len(registry(cw.w, 1).patterns) = 1
  /\ Len(registry(cw.w, 2).patterns) = 2
  /\ registry(cw.w, 2).patterns[1] = registry(cw.w, 1).patterns[1]
  /\ registry(cw.w, 2).expanders[1] = registry(cw.w, 1).expanders[1]

(***************************************************************************)
(* Specification SpecSyntax: parse(s) step by step for the source texts of *)
(* given forms: a regexp after the group of a block keyword, numbers and   *)
(* dots, function definitions, chains of two binary operators, ternaries.  *)
(*   pv   the locals of the running parse                                  *)
(*   out  the text parsed and, in out.form, the form it was built from     *)
(*   cw   not used                                                         *)
(***************************************************************************)
\* the keywords that introduce a block after a parenthesized group
BlockKeywords == {"if", "for", "while", "with", "do", "catch", "function"}

\* the binary operators: the keys of parse_lr but the markers of invocations
BinaryOperators == DOMAIN parse_lr \ {"[]", "()"}

form(kind, a, b, c, d) == [kind |-> kind, a |-> a, b |-> b, c |-> c, d |-> d]

\* kw (b) /r/c
RegexpForms == {form("regexp", kw, b, c, "") : kw \in BlockKeywords, b \in {"a", ""}, c \in {".test(x)", "g", ""}}

\* programs with numbers and dots
NumberForms ==
  {form("number", a, "", "", "") :
     a \in {"0.5.toString()", ".5.toString()", "x = 1.5", "a.end", "x = .5 + 1.",
            "1..toString()", "1e5 + 1.5e3", "0x1f.a", "x = a.b.c"}}

\* a function b(c) {d}
FunctionForms ==
  {form("function", a, b, c, d) :
     a \in {"", "x = ", "a; "}, b \in {"f", ""}, c \in {"x", "", "x, y"}, d \in {"return x", ""}}

\* x a y b z
ChainForms == {form("chain", a, b, "", "") : a \in BinaryOperators, b \in BinaryOperators}

\* a ? b : c
TernaryForms ==
  {form("ternary", a, b, c, "") :
     a \in {"c", "a || b"}, b \in {"x", "x + 1", "x = 1", "f(x)", "b ? 1 : 2"}, c \in {"y", "y * 2"}}

Forms == RegexpForms \cup NumberForms \cup FunctionForms \cup ChainForms \cup TernaryForms

\* the source text of a form
text(f) ==
  CASE f.kind = "regexp" -> f.a \o " (" \o f.b \o ") /r/" \o f.c
    [] f.kind = "number" -> f.a
    [] f.kind = "function" -> f.a \o "function " \o f.b \o "(" \o f.c \o ") {" \o f.d \o "}"
    [] f.kind = "chain" -> "x " \o f.a \o " y " \o f.b \o " z"
    [] f.kind = "ternary" -> f.a \o " ? " \o f.b \o " : " \o f.c

InitSyntax ==
  /\ \E f \in Forms :
       /\ pv = parse_start(text(f))
       /\ out = [op |-> "parse", round |-> 1, src |-> text(f), root |-> null, first |-> <<>>,
                 text |-> "", form |-> f]
  /\ heap = <<>>
  /\ cw = <<>>

NextSyntax == Lex \/ Fold \/ InferSemicolons \/ FlattenInvocations \/ Root

SpecSyntax == InitSyntax /\ [][NextSyntax]_vars

(***************************************************************************)
(* Claims on the syntax (specification SpecSyntax).                        *)
(***************************************************************************)
\* the tree of a leaf with data d
leaf(d) == <<d, <<>>>>

\* the tree that parse returns for the text x
parsed(x) == seq(parse(<<>>, x), LAMBDA a : tree(a.h, a.v.head))

\* the last token lexed is a ')' that closed the group after a keyword of K
closed_group_of(K) ==
  /\ pv.pc = "lex"
  /\ pv.t = ")"
  /\ pv.head # null
  /\ heap[pv.head].data = "("
  /\ heap[pv.head].l # null
  /\ heap[heap[pv.head].l].data \in K

\* the next token starts with a slash that opens neither a comment nor the end of input
slash_follows ==
  LET i == skip_space(pv.s, pv.i, pv.l)
  IN  cs(pv.s, i) = "/" /\ cs(pv.s, i + 1) \notin {"/", "*"}

\* C11: after the lexer has emitted the ')' that closes the group following if, for,
\* while, with, do, catch or function, the regexp flag is set, and a '/' that follows
\* is lexed as the start of a regular expression literal (a value: the flag is reset,
\* and the token is the literal with its delimiters), not as a division.
C11_RegexpAfterBlockGroup ==
  [][closed_group_of(BlockKeywords) =>
       /\ pv.re
       /\ slash_follows =>
            /\ pv'.pc # "error"
            /\ ~ pv'.re
            /\ Len(pv'.t) >= 2
            /\ SubSeq(pv'.t, 1, 1) = "/"
            /\ pv'.t \notin DOMAIN lex_op
            /\ heap'[pv'.head].data = pv'.t]_vars

\* 'if (a) /r/.test(x)' has been parsed: the literal /r/ is one node, dereferenced by test
C11_Witness ==
  /\ out.src = "if (a) /r/.test(x)"
  /\ pv.pc = "done"
  /\ tree(heap, pv.head) =
       <<"if", << <<"(", <<leaf("a")>> >>,
                  <<"()", << <<".", <<leaf("/r/"), leaf("test")>> >>, leaf("x") >> >> >> >>

\* the token d is a numeric literal: it starts with a digit, or with a dot and a digit
numeric(d) ==
  /\ Len(d) > 0
  /\ \/ SubSeq(d, 1, 1) \in lex_decimal
     \/ Len(d) > 1 /\ SubSeq(d, 1, 1) = "." /\ SubSeq(d, 2, 2) \in lex_decimal

\* the number of dots of the token d
dots(d) == Cardinality({k \in 1..Len(d) : SubSeq(d, k, k) = "."})

\* C12: a numeric literal token holds at most one '.': in every program with numbers
\* the lexer does not fail and no numeric token has two dots, and '0.5.toString()' is
\* the invocation of the dereference of the literal 0.5 by toString.
C12_OneDot ==
  out.form.kind = "number" =>
    /\ pv.pc # "error"
    /\ \A n \in DOMAIN heap : numeric(heap[n].data) => dots(heap[n].data) <= 1
    /\ (out.src = "0.5.toString()" /\ pv.pc = "done") =>
          tree(heap, pv.head) = <<"()", << <<".", <<leaf("0.5"), leaf("toString")>> >>, <<>> >> >>

\* the tree of the group node d around the parse of the text x (no child for no text)
group_of(d, x) == <<d, IF x = "" THEN <<>> ELSE <<parsed(x)>> >>

\* the function node of the form f: the name if there is one, the '(' group of the
\* parameters, the '{' group of the body
function_node(f) ==
  <<"function", (IF f.b = "" THEN <<>> ELSE <<leaf(f.b)>>) \o <<group_of("(", f.c), group_of("{", f.d)>> >>

\* C13: grab-until-block for function.  The function node takes its name (if any) and
\* its parameter group, then the block: 'function f(x) {return x}' is one function node
\* with the children f, the '(' group holding x and the '{' group holding the return, and
\* the parameter group is not made an invocation of f; the node is where the text puts
\* it (alone, as the right side of 'x =', after 'a;').
C13_FunctionGrab ==
  (out.form.kind = "function" /\ pv.pc \in {"done", "error"}) =>
    /\ pv.pc = "done"
    /\ tree(heap, pv.head) =
         CASE out.form.a = "" -> function_node(out.form)
           [] out.form.a = "x = " -> <<"=", <<leaf("x"), function_node(out.form)>> >>
           [] out.form.a = "a; " -> <<";", <<leaf("a"), function_node(out.form)>> >>
    /\ \A n \in nodes_under(heap, pv.head) : heap[n].data # "()"

\* 'function f(x) {return x}' has been parsed into one function node with three children
C13_Witness ==
  /\ out.src = "function f(x) {return x}"
  /\ pv.pc = "done"
  /\ tree(heap, pv.head) =
       <<"function", <<leaf("f"), <<"(", <<leaf("x")>> >>, <<"{", << <<"return", <<leaf("x")>> >> >> >> >> >>

\* C19: operator folding respects precedence and associativity.  For 'x a y b z' with
\* binary operators a and b: a in an earlier group than b gives b(a(x, y), z), in a later
\* group a(x, b(y, z)); in the same group, a(x, b(y, z)) when the operators associate
\* right and b(a(x, y), z) when they do not.  A group is iterated backwards exactly when
\* it holds a key that associates right.
C19_Precedence ==
  /\ \A g \in DOMAIN parse_reduce_order :
        parse_index_forward[g] = ~ (\E k \in DOMAIN parse_reduce_order[g] : has(parse_associates_right, k))
  /\ (out.form.kind = "chain" /\ pv.pc \in {"done", "error"}) =>
       LET a == out.form.a
           b == out.form.b
           left == <<b, << <<a, <<leaf("x"), leaf("y")>> >>, leaf("z") >> >>
           right == <<a, << leaf("x"), <<b, <<leaf("y"), leaf("z")>> >> >> >>
       IN  /\ pv.pc = "done"
           /\ tree(heap, pv.head) =
                IF parse_inverse_order[a] < parse_inverse_order[b] THEN left
                ELSE IF parse_inverse_order[a] > parse_inverse_order[b] THEN right
                ELSE IF has(parse_associates_right, a) THEN right ELSE left

\* chains have been parsed: one of a group before a later one, one of a group after an
\* earlier one ('x + y * z'), one of two operators that associate right ('x = y += z')
C19_Witness ==
  /\ pv.pc = "done"
  /\ out.form.kind = "chain"
  /\ out.form.a = "="
  /\ out.form.b = "+="
  /\ tree(heap, pv.head) = <<"=", << leaf("x"), <<"+=", <<leaf("y"), leaf("z")>> >> >> >>

\* C20: ternary folding.  For 'a ? b : c' the '?' node of the returned tree has three
\* children, in the order condition, consequent, alternative, and they are the complete
\* parses of a, b and c.
C20_Ternary ==
  (out.form.kind = "ternary" /\ pv.pc \in {"done", "error"}) =>
    /\ pv.pc = "done"
    /\ tree(heap, pv.head) = <<"?", <<parsed(out.form.a), parsed(out.form.b), parsed(out.form.c)>> >>

(***************************************************************************)
(* Claims on the termination of macroexpand (specification SpecMacro).     *)
(***************************************************************************)
\* the calls of the callback of macro_expand in the log of the last macroexpand call
visits == SelectSeq(out.log, LAMBDA e : e.k = "call" /\ e.f = "macro_expand")

\* the expander invocations in the log of the last macroexpand call
expansions == SelectSeq(out.log, LAMBDA e : e.k = "expand")

\* the registry of engine e holds a wrapper of rmacro
has_wrapper(e) == \E k \in DOMAIN registry(cw.w, e).expanders : registry(cw.w, e).expanders[k].kind = "rmacro"

\* C14 (as stated): macroexpand terminates, for every registry built with macro and
\* rmacro: the call returns, it does not run until the stack is exhausted.
C14_Terminates == out.op = "macroexpand" => out.err = ""

\* C14 (amended): for a registry built with macro alone, macroexpand returns; the
\* callback is called on nodes of the input tree only, on each at most once, and the
\* expanders are invoked at most once for each visited node and pair.  A call that does
\* not return is one of an engine with a wrapper of rmacro in its registry.
C14_MacroBounded ==
  out.op = "macroexpand" =>
    /\ out.err # "" => (out.err = "RangeError" /\ has_wrapper(out.arg.e))
    /\ ~ has_wrapper(out.arg.e) =>
         /\ out.err = ""
         /\ \A j \in DOMAIN visits : visits[j].n \in nodes_under(heap, out.t) /\ visits[j].n <= out.size
         /\ \A j, k \in DOMAIN visits : visits[j].n = visits[k].n => j = k
         /\ \A j, k \in DOMAIN expansions :
               (expansions[j].n = expansions[k].n /\ expansions[j].i = expansions[k].i) => j = k
         /\ Len(expansions) <= Len(visits) * Len(registry(cw.w, out.arg.e).patterns)

\* an engine with macros only has replaced a node by a tree that its own pattern
\* matches again, and has returned
C14_Witness ==
  /\ out.op = "macroexpand"
  /\ out.err = ""
  /\ ~ has_wrapper(out.arg.e)
  /\ \E j \in DOMAIN expansions :
        /\ expansions[j].r # null
        /\ macro_try_match(heap, registry(cw.w, out.arg.e).patterns[expansions[j].i + 1], expansions[j].r).m

Digits36 == "0123456789abcdefghijklmnopqrstuvwxyz"

RECURSIVE toString36(_)
\* Number.prototype.toString(36) for a natural number
toString36(k) ==
  IF k < 36 THEN SubSeq(Digits36, k + 1, k + 1)
  ELSE toString36(k \div 36) \o SubSeq(Digits36, (k % 36) + 1, (k % 36) + 1)

\* gensym(): '_gensym_' + n.toString(36) + '_' + (++m).toString(36) + '_'
\* g is the closure; returns the closure after the call and the string
gensym(g) ==
  [g |-> [g EXCEPT !.m = @ + 1],
   r |-> "_gensym_" \o toString36(g.n) \o "_" \o toString36(g.m + 1) \o "_"]

\* a variant of the behavior ref that gives the new engine a closure of its own
ref_own(c, x) == [c |-> [c EXCEPT !.generators = Append(@, @[x])], a |-> Len(c.generators) + 1]

\* the behavior ref: the value itself (line 846: no entry in behaviors, so id)
ref(c, x) == [c |-> c, a |-> x]

\* the time stamps and the first counters of a load (n = +new Date(), m below 1 << 30)
Dates == {1295, 46656}
Seeds == {0, 34, 1294}

\* the configurations that the file registers on the global engine, each with the
\* names it hands to this.configure when it runs
configurations ==
  [name \in {"qs", "qg", "fn", "defmacro", "dfn", "string", "std"} |->
     IF name = "std" THEN << "qs", "fn", "dfn", "defmacro", "string" >> ELSE <<>>]

\* the members that every object inherits from Object.prototype
ObjectPrototype ==
  [name \in {"toString", "constructor", "valueOf", "hasOwnProperty", "isPrototypeOf",
             "propertyIsEnumerable", "toLocaleString", "__proto__"} |->
     IF name = "__proto__" THEN "object" ELSE "function"]

\* o[name] for the configurations object o: an own entry, else what the prototype has
lookup(o, name) ==
  IF name \in DOMAIN o THEN [is |-> "function", own |-> TRUE, configure |-> o[name]]
  ELSE IF name \in DOMAIN ObjectPrototype THEN [is |-> ObjectPrototype[name], own |-> FALSE, configure |-> <<>>]
  ELSE [is |-> "undefined", own |-> FALSE, configure |-> <<>>]

\* the global engine with its attributes after the file has run
engines(n, m) ==
  [qs |-> <<>>, w |-> caterwaul, generators |-> << [n |-> n, m |-> m] >>,
   attrs |-> << [gensym |-> 1, configurations |-> configurations, applied |-> <<>>] >>,
   symbols |-> <<>>]

\* copy_of for all the attributes of this part: macro_patterns and macro_expanders as
\* in copy_of, configurations with the behavior shallow (merge({}, x): a new object
\* with the same own entries), gensym with the behavior ref
engine_copy_of(c, f) ==
  seq(ref(c, c.attrs[f].gensym), LAMBDA g :
      [g.c EXCEPT !.w = copy_of(c.w, f),
                  !.attrs = Append(@, [gensym |-> g.a, configurations |-> c.attrs[f].configurations,
                                       applied |-> <<>>])])

\* e.gensym()
engine_gensym(c, e) ==
  seq(gensym(c.generators[c.attrs[e].gensym]), LAMBDA a :
      [c |-> [c EXCEPT !.generators[c.attrs[e].gensym] = a.g, !.symbols = Append(@, [e |-> e, r |-> a.r])], r |-> a.r])

\* configuration(name, f): this.configurations[name] = f
configuration(c, e, name, f) == [c EXCEPT !.attrs[e].configurations = [k \in DOMAIN @ \cup {name} |-> IF k = name THEN f ELSE @[k]]]

RECURSIVE configure(_, _, _)
\* configure(names...): this.configurations[_].call(this) for each name in turn; calling
\* what is not a function throws TypeError and leaves the names after it alone
configure(c, e, names) ==
  IF names = <<>> THEN [c |-> c, err |-> ""]
  ELSE LET f == lookup(c.attrs[e].configurations, Head(names))
       IN  IF f.is # "function" THEN [c |-> c, err |-> "TypeError"]
           ELSE seq(IF f.own
                    THEN configure([c EXCEPT !.attrs[e].applied = Append(@, Head(names))], e, f.configure)
                    ELSE [c |-> c, err |-> ""], LAMBDA a :
                    IF a.err # "" THEN a ELSE configure(a.c, e, Tail(names)))

\* clone(names...): this.clone().configure.apply(null, arguments); the clone is
\* returned by configure, so a throw leaves no reference to it
clone_configure(c, e, names) ==
  seq(configure(engine_copy_of(c, e), Len(c.attrs) + 1, names), LAMBDA a :
      IF a.err # "" THEN [c |-> c, r |-> null, err |-> a.err]
      ELSE [c |-> a.c, r |-> Len(c.attrs) + 1, err |-> ""])

\* compile(tree, environment) up to the text handed to new Function: s = gensym(), then
\* 'return (' + tree.rmap(...).serialize() + ')'; g is the closure of gensym
compile(h, g, t, environment) ==
  seq(gensym(g), LAMBDA b :
  seq(rmap(h, t, [kind |-> "compile", environment |-> environment, s |-> b.r], st0(caterwaul)), LAMBDA a :
      [h |-> a.h, r |-> a.r, g |-> b.g, s |-> b.r, err |-> a.err, log |-> a.st.log,
       text |-> IF a.err = "" THEN "return (" \o serialize(a.h, a.r) \o ")" ELSE ""]))

(***************************************************************************)
(* Specifications of the symbols and of the configurations.  SpecSymbols:  *)
(* a page clones engines and draws symbols through them, then compiles a   *)
(* tree.  SpecConfigure: a page clones engines and registers configurations *)
(* of its own, then asks for configurations by name.                       *)
(***************************************************************************)
MaxSymbols == 3
MaxNames == 2
MaxConfigurations == 1

CompileSources == << "x", "x + y * x", "f(x, y)", "f()", "x.y = function (y) {return x}" >>

\* the environments of compile, each by its own keys
Environments == {[k \in K |-> TRUE] : K \in {{}, {"x"}, {"x", "f"}, {"y", "+"}}}

\* the names a page asks for, and the names and the bodies of the configurations it registers
RequestedNames == {"qs", "std", "nope", "mine", "toString", "__proto__"}
UserNames == {"nope", "mine"}
UserConfigurations == {<<>>, << "qs" >>}
NameLists == UNION {[1..k -> RequestedNames] : k \in 1..MaxNames}

engine_call(op) ==
  [op |-> op, src |-> "", t |-> null, arg |-> <<>>, r |-> null, err |-> "", log |-> <<>>, size |-> 0,
   text |-> "", s |-> "", before |-> <<>>]

InitEngines ==
  /\ heap = <<>>
  /\ pv = parse_start("")
  /\ out = engine_call("load")
  /\ \E n \in Dates, m \in Seeds : cw = engines(n, m)

\* the calls after which the page is not followed further
finished == out.op \in {"compile", "configure", "clone_configure"}

\* e.clone()
CloneEngine ==
  /\ ~ finished
  /\ Len(cw.attrs) < MaxEngines
  /\ \E e \in DOMAIN cw.attrs :
       /\ cw' = engine_copy_of(cw, e)
       /\ out' = [engine_call("clone") EXCEPT !.arg = [e |-> e], !.r = Len(cw.attrs) + 1]
  /\ UNCHANGED <<heap, pv>>

\* e.gensym()
Gensym ==
  /\ ~ finished
  /\ Len(cw.symbols) < MaxSymbols
  /\ \E e \in DOMAIN cw.attrs :
       \E a \in {engine_gensym(cw, e)} :
           /\ cw' = a.c
           /\ out' = [engine_call("gensym") EXCEPT !.arg = [e |-> e], !.s = a.r]
  /\ UNCHANGED <<heap, pv>>

\* compile(parse(src), environment); compile uses the gensym of the file, closure 1
Compile ==
  /\ ~ finished
  /\ \E k \in DOMAIN CompileSources, environment \in Environments :
       \E p \in {parse(heap, CompileSources[k])} :
       \E a \in {compile(p.h, cw.generators[1], p.v.head, environment)} :
           /\ heap' = a.h
           /\ pv' = p.v
           /\ cw' = [cw EXCEPT !.generators[1] = a.g, !.symbols = Append(@, [e |-> 0, r |-> a.s])]
           /\ out' = [engine_call("compile") EXCEPT !.src = CompileSources[k], !.t = p.v.head,
                         !.arg = [environment |-> environment], !.r = a.r, !.err = a.err, !.log = a.log,
                         !.size = Len(p.h), !.text = a.text, !.s = a.s, !.before = cw.generators[1]]

NextSymbols == CloneEngine \/ Gensym \/ Compile

SpecSymbols == InitEngines /\ [][NextSymbols]_vars

\* e.configuration(name, f)
Configuration ==
  /\ ~ finished
  /\ \E e \in DOMAIN cw.attrs, name \in UserNames, f \in UserConfigurations :
       /\ Cardinality(DOMAIN cw.attrs[e].configurations \ DOMAIN configurations) < MaxConfigurations
       /\ cw' = configuration(cw, e, name, f)
       /\ out' = [engine_call("configuration") EXCEPT !.arg = [e |-> e, name |-> name], !.r = e]
  /\ UNCHANGED <<heap, pv>>

\* e.configure(names...)
Configure ==
  /\ ~ finished
  /\ \E e \in DOMAIN cw.attrs, names \in NameLists :
       \E a \in {configure(cw, e, names)} :
           /\ cw' = a.c
           /\ out' = [engine_call("configure")
                        EXCEPT !.arg = [e |-> e, names |-> names, registered |-> DOMAIN cw.attrs[e].configurations],
                               !.r = IF a.err = "" THEN e ELSE null, !.err = a.err]
  /\ UNCHANGED <<heap, pv>>

\* e.clone(names...)
CloneConfigure ==
  /\ ~ finished
  /\ Len(cw.attrs) < MaxEngines
  /\ \E e \in DOMAIN cw.attrs, names \in NameLists :
       \E a \in {clone_configure(cw, e, names)} :
           /\ cw' = a.c
           /\ out' = [engine_call("clone_configure")
                        EXCEPT !.arg = [e |-> e, names |-> names, registered |-> DOMAIN cw.attrs[e].configurations],
                               !.r = a.r, !.err = a.err]
  /\ UNCHANGED <<heap, pv>>

NextConfigure == CloneEngine \/ Configuration \/ Configure \/ CloneConfigure

SpecConfigure == InitEngines /\ [][NextConfigure]_vars

(***************************************************************************)
(* Claims on the symbols and the configurations.                           *)
(***************************************************************************)
RECURSIVE rewritten(_, _, _)
\* the tree T with every leaf whose data is an own key of the environment replaced
\* by ( holding . holding the symbol and the leaf, and every other node kept
rewritten(T, environment, b) ==
  IF T = <<>> THEN T
  ELSE IF T[2] = <<>> /\ has(environment, T[1]) THEN <<"(", << <<".", <<leaf(b), T>> >> >> >>
  ELSE <<T[1], [k \in DOMAIN T[2] |-> rewritten(T[2][k], environment, b)]>>

\* C16 (as stated): compile takes exactly one fresh symbol B and returns the tree in
\* which every leaf whose data is an own key of the environment is replaced by a (
\* node holding a . node with children B and that leaf; every other node keeps its
\* data and its position, and the leaf inside a replacement is not rewritten again.
C16_CompileRewrite ==
  out.op = "compile" =>
      /\ out.err = ""
      /\ cw.generators[1].m = out.before.m + 1
      /\ out.s = gensym(out.before).r
      /\ \A i \in 1..(Len(cw.symbols) - 1) : cw.symbols[i].r # out.s
      /\ tree(heap, out.r) = rewritten(tree(heap, out.t), out.arg.environment, out.s)

\* C17: the strings that gensym returned so far are pairwise different, whatever
\* engine of the family (an engine and its clones, which hold the same gensym) each
\* call was made through, the call inside compile included; a gensym call returns
\* the string it has just added.
C17_SymbolsUnique ==
  /\ \A i, j \in DOMAIN cw.symbols : i # j => cw.symbols[i].r # cw.symbols[j].r
  /\ \A e \in DOMAIN cw.attrs : cw.attrs[e].gensym = cw.attrs[1].gensym
  /\ out.op = "gensym" => cw.symbols[Len(cw.symbols)] = [e |-> out.arg.e, r |-> out.s]

\* three symbols, drawn through an engine, through its clone and through the engine
\* again, the counter passing from one digit to two
C17_Witness ==
  /\ Len(cw.symbols) >= 3
  /\ cw.symbols[1].e = 1 /\ cw.symbols[2].e = 2 /\ cw.symbols[3].e = 1
  /\ Len(cw.symbols[1].r) < Len(cw.symbols[3].r)

\* C18 (as stated): configure(name...) and clone(name...) throw when one of the names
\* asked for is not a registered configuration of the engine.
C18_UnknownNameRaises ==
  (/\ out.op \in {"configure", "clone_configure"}
   /\ \E k \in DOMAIN out.arg.names : out.arg.names[k] \notin out.arg.registered)
  => out.err # ""

(***************************************************************************)
(* Claims on the steps of parse (specification SpecParse).                 *)
(***************************************************************************)
\* the node that the running iteration of the fold loop is about
fold_subject == pv.indexes[pv.i + 1][pv.j + 1]

\* the fold loop is at a ( or [ group that has a left sibling which is a . node, or is
\* neither an operator nor one of function, if, for, while, catch
invocation_case ==
  /\ pv.pc = "fold"
  /\ heap[fold_subject].data \in {"(", "["}
  /\ heap[fold_subject].l # null
  /\ LET d == heap[heap[fold_subject].l].data
     IN  d = "." \/ (d \notin DOMAIN lex_op /\ d \notin {"function", "if", "for", "while", "catch"})

\* the fold loop is at a ( or [ group that is not in the invocation case
plain_group_case == pv.pc = "fold" /\ heap[fold_subject].data \in {"(", "["} /\ ~ invocation_case

emits_token ==
  /\ pv.pc = "lex"
  /\ pv'.pc \notin {"comment", "error"}
  /\ ~ (cs(pv.s, pv'.mark) = "/" /\ cs(pv.s, pv'.mark + 1) = "/")

\* the text of the token that this iteration consumed (past the white space)
token_text == substring(pv.s, pv'.mark, IF pv'.pc = "lex" THEN pv'.i ELSE Len(pv.s))

\* the token of this iteration can end a value: a number, a string or regexp literal, an
\* identifier that is not in the operator set, a ) or ] that does not close the group
\* after a block keyword, or a postfix ++ or --
ends_value ==
  LET x == token_text
      c == charAt(x, 0)
      closed == pv'.head
  IN  \/ c \in lex_decimal \/ (c = "." /\ charAt(x, 1) \in lex_decimal)
      \/ c \in {"\"", "'"} \/ (c = "/" /\ pv.re)
      \/ (c \in lex_ident \ lex_decimal /\ x \notin DOMAIN lex_op)
      \/ /\ x \in {")", "]"}
         /\ ~ (/\ x = ")" /\ heap'[closed].l # null
               /\ heap'[heap'[closed].l].data \in BlockKeywords \cup {"try"})
      \/ (x \in {"++", "--"} /\ ~ pv.re)

\* C22 (as stated): regex versus division.  After a token that can end a value the
\* regex-mode flag is false, after every other token it is true; a / that is lexed
\* while the flag is false is the division operator (or /=), a / that is lexed while
\* the flag is true starts a regexp literal.
C22_RegexFlag ==
  [][(emits_token /\ token_text # "") =>
        /\ pv'.re = ~ ends_value
        /\ (charAt(token_text, 0) = "/" /\ ~ pv.re) => pv'.t \in {"/", "/="}
        /\ (charAt(token_text, 0) = "/" /\ pv.re) => pv'.t = token_text /\ ~ pv'.re
    ]_vars

\* C23 (as stated): prefix-unary marking.  When +, -, !, ~, ++, -- or typeof is lexed
\* while the regex-mode flag is true, the data of the node is the operator prefixed
\* with u.
C23_PrefixUnaryTypeof ==
  [][(emits_token /\ pv.re /\ token_text \in {"+", "-", "!", "~", "++", "--", "typeof"}) =>
        pv'.t = "u" \o token_text
    ]_vars

\* C23 (amended): when +, -, !, ~, ++ or -- is lexed while the regex-mode flag is true,
\* the data of the node is the operator prefixed with u and the flag stays true; typeof
\* is a word and is emitted as typeof, without a prefix, whatever the flag, and sets the
\* flag.  A ++ or -- lexed while the flag is false is emitted without the prefix and the
\* flag stays false; a + or - lexed while the flag is false is emitted without the
\* prefix, as the binary operator, and sets the flag.
C23_PrefixUnary ==
  [][emits_token =>
        /\ (pv.re /\ token_text \in {"+", "-", "!", "~", "++", "--"}) =>
              /\ pv'.t = "u" \o token_text /\ pv'.re
              /\ heap'[pv'.head].data = pv'.t /\ pv'.t \in DOMAIN parse_r
        /\ token_text = "typeof" =>
              /\ pv'.t = "typeof" /\ pv'.re
              /\ heap'[pv'.head].data = "typeof"
        /\ (~ pv.re /\ token_text \in {"++", "--"}) =>
              /\ pv'.t = token_text /\ ~ pv'.re
              /\ heap'[pv'.head].data = pv'.t /\ pv'.t \in DOMAIN parse_l
        /\ (~ pv.re /\ token_text \in {"+", "-"}) =>
              /\ pv'.t = token_text /\ pv'.re
              /\ heap'[pv'.head].data = pv'.t /\ pv'.t \in DOMAIN parse_lr
    ]_vars

\* a prefix minus has been lexed after a binary minus, and in another text a postfix ++
C23_Witness ==
  \/ pv.t = "u-" /\ \E n \in DOMAIN heap : heap[n].data = "-"
  \/ pv.t = "++" /\ ~ pv.re /\ pv.pc # "lex"

\* C24: lexer stall.  Whenever an iteration of the main lex loop ends at the position
\* where its token started, parse throws the error of line 463: the store, the ribbon
\* head, the fold indexes and the node list are as before the iteration, and the run
\* takes no further step, so no tree is returned.  The error is thrown in no other case.
C24_LexerStall ==
  [][/\ (pv.pc = "lex" /\ pv'.pc \in {"lex", "error"} /\ pv'.i = pv'.mark) =>
          /\ pv'.pc = "error" /\ pv'.t = stall
          /\ heap' = heap
          /\ pv'.head = pv.head /\ pv'.indexes = pv.indexes /\ pv'.all_nodes = pv.all_nodes
          /\ pv'.grouping_stack = pv.grouping_stack
     /\ (pv.pc = "lex" /\ pv'.pc = "error") => pv'.t = stall /\ pv'.i = pv'.mark
     /\ pv.pc = "error" => pv' = pv /\ heap' = heap
    ]_vars

\* the lexer stalled after it had emitted tokens
C24_Witness == pv.pc = "error" /\ pv.t = stall /\ pv.i = pv.mark /\ pv.mark > 0 /\ Len(heap) >= 2

(***************************************************************************)
(* Specification SpecSerialize: parse of a statement with a block keyword  *)
(* and its continuation, then serialize() of the returned tree and parse   *)
(* of that text (pv, out as in SpecParse).                                 *)
(***************************************************************************)
\* the bodies of if, what stands between the body and else, and the statements after else
Bodies == {"x", "x = 1", "f(x)", "x++", "a - 1", "{x}", "{}", "if (b) y; else z"}
Separators == {"; ", " ", "\n"}
Elses == {"y", "{y}", "if (d) z"}

ContinuationSources ==
  {"if (c) " \o b \o sep \o "else " \o e : b \in Bodies, sep \in Separators, e \in Elses}
  \cup {"do a; while (b)", "do {a} while (b)", "try {a} catch (e) {b}",
        "try {a} catch (e) {b} finally {c}", "if (c) x", "if (a) if (b) x; else y; else z"}

InitSerialize ==
  /\ \E src \in ContinuationSources : pv = parse_start(src)
  /\ heap = <<>>
  /\ out = [op |-> "parse", round |-> 1, src |-> pv.s, root |-> null, first |-> <<>>, text |-> ""]
  /\ cw = <<>>

NextSerialize == Lex \/ Fold \/ InferSemicolons \/ FlattenInvocations \/ Root \/ Reparse

SpecSerialize == InitSerialize /\ [][NextSerialize]_vars

\* the nodes of the returned tree that have a continuation as their third child:
\* if with else, do with while, try with catch, catch with finally
continued ==
  {n \in nodes_under(heap, pv.head) :
     /\ heap[n].data \in {"if", "do", "try", "catch"}
     /\ Len(heap[n].ch) >= 3 /\ heap[n].ch[2] # null /\ heap[n].ch[3] # null
     /\ heap[heap[n].ch[3]].data = (CASE heap[n].data = "if" -> "else" [] heap[n].data = "do" -> "while"
                                      [] heap[n].data = "try" -> "catch" [] heap[n].data = "catch" -> "finally")}

\* C25: serialization of a continuation.  For a node of a returned tree whose third child
\* is its continuation: when the body (the second child) is not a { block, the text is
\* the keyword, the first child, the body, a ; and the continuation, and parse of that
\* text gives the keyword node again with the same three children, the body in the
\* second place and the continuation in the third; when the body is a { block the three
\* children are joined without a ; .
C25_ContinuationSemicolon ==
  pv.pc = "done" =>
    \A n \in continued :
       LET op == heap[n].data
           k0 == heap[n].ch[1]
           body == heap[n].ch[2]
           continuation == heap[n].ch[3]
           t0 == IF k0 = null THEN "" ELSE serialize(heap, k0)
       IN  IF heap[body].data # "{"
           THEN /\ serialize(heap, n) =
                     op \o " " \o t0 \o serialize(heap, body) \o ";" \o serialize(heap, continuation)
                /\ parsed(serialize(heap, n)) =
                     <<op, <<parsed(t0), parsed(serialize(heap, body)),
                             parsed(serialize(heap, continuation))>> >>
           ELSE serialize(heap, n) =
                     op \o " " \o t0 \o serialize(heap, body) \o serialize(heap, continuation)

\* the tree of an if whose body is an assignment and whose else was written after a line
\* break, without a semicolon, has been returned
C25_Witness ==
  /\ pv.pc = "done" /\ out.round = 1
  /\ out.src = "if (c) x = 1\nelse {y}"
  /\ \E n \in continued : n = pv.head /\ heap[heap[n].ch[2]].data = "="

RECURSIVE walk(_, _)
\* the nodes under n in pre-order, children left to right
walk(h, n) ==
  IF n = null THEN <<>>
  ELSE LET RECURSIVE kids(_)
           kids(k) == IF k > Len(h[n].ch) THEN <<>> ELSE walk(h, h[n].ch[k]) \o kids(k + 1)
       IN  <<n>> \o kids(1)

\* d is the data of an identifier or of a literal: a word that is no operator and no
\* keyword of the fold tables, a number, a string or a regexp
operand(d) ==
  /\ d # "" /\ d \notin DOMAIN lex_op /\ d \notin DOMAIN parse_inverse_order
  /\ \/ \A k \in 0..(Len(d) - 1) : charAt(d, k) \in lex_ident
     \/ charAt(d, 0) \in {"\"", "'"}
     \/ (charAt(d, 0) \in {"/", "."} /\ Len(d) > 1)

\* the operand tokens of the first parse in the order in which they were lexed (nodes
\* are numbered as they are created)
lexed_operands == SelectSeq([n \in 1..Len(heap) |-> n], LAMBDA n : operand(heap[n].data))

\* C26 (as stated): token preservation.  When parse returns, the identifier and literal
\* tokens lexed from the text are met by a pre-order walk of the returned tree exactly
\* once each and in their source order: no operand is left outside the tree.
C26_TokensPreserved ==
  (pv.pc = "done" /\ out.round = 1 /\ well_formed(out.src)) =>
     SelectSeq(walk(heap, pv.head), LAMBDA n : operand(heap[n].data)) = lexed_operands

\* the sibling links of store h are mutual
linked(h) ==
  \A x \in DOMAIN h :
     /\ h[x].r # null => h[h[x].r].l = x
     /\ h[x].l # null => h[h[x].l].r = x

\* the nodes that this step has added to the children of a node, in a new slot
appended == {c \in DOMAIN heap' : \E n \in DOMAIN heap' : \E k \in DOMAIN heap'[n].ch :
               /\ heap'[n].ch[k] = c
               /\ \/ n \notin DOMAIN heap
                  \/ /\ k > Len(heap[n].ch)
                     /\ \A k0 \in DOMAIN heap[n].ch : heap[n].ch[k0] # c}

\* C27: ribbon link consistency.  After every step of parse, for every node x, x.r
\* non-null implies x.r.l = x and x.l non-null implies x.l.r = x; every node that a step
\* of the fold loop or of the inferred-semicolon loop has folded under another node has
\* both sibling links null after that step, and a child without sibling links gets none
\* in the steps after the lexing.
C27_RibbonLinks ==
  [][/\ linked(heap')
     /\ pv.pc \in {"fold", "semi"} =>
          \A c \in appended : heap'[c].l = null /\ heap'[c].r = null
     /\ pv.pc \in {"fold", "semi", "invoc", "root"} =>
          \A c \in DOMAIN heap :
             (heap[c].p # null /\ heap[c].l = null /\ heap[c].r = null)
                => heap'[c].l = null /\ heap'[c].r = null
    ]_vars

\* in the fold loop: an invocation node that holds its two children stands in the ribbon
\* next to a neighbour
C27_Witness ==
  /\ pv.pc = "fold"
  /\ \E n \in DOMAIN heap :
       /\ heap[n].data \in {"()", "[]"} /\ Len(heap[n].ch) = 2
       /\ (heap[n].l # null \/ heap[n].r # null)
       /\ heap[heap[n].ch[1]].l = null /\ heap[heap[n].ch[2]].r = null

(***************************************************************************)
(* Specification SpecDefmacro: macros that define macros.  The page gives  *)
(* engines a pair whose pattern is defmacro[_][_] and whose expander       *)
(* registers a macro on this, as the expander of defmacro does (lines      *)
(* 982-983), clones engines, and calls e.macroexpand(parse(src)).          *)
(***************************************************************************)
DefinitionSources == << "a, defmacro[a][b], a", "defmacro[a][b], a + a",
                        "a, defmacro[a][b], defmacro[b][c], a",
                        "f(a, defmacro[a][c]), a", "a, defmacro[a][a], b" >>

\* function (pattern, expansion) {this.rmacro(pattern, function () {return expansion});
\*                                return new this.syntax('null')}
defining_expander == [kind |-> "defines", this |-> null]

\* e.macro(parse('defmacro[_][_]'), defining_expander)
MacroDefines ==
  /\ configuring
  /\ registrations < MaxRegistrations
  /\ \E e \in DOMAIN cw.w.engines :
       \E p \in {parse(heap, "defmacro[_][_]")} :
           /\ heap' = p.h
           /\ pv' = p.v
           /\ cw' = [cw EXCEPT !.w = macro(cw.w, e, p.v.head, defining_expander)]
           /\ out' = [out EXCEPT !.op = "macro", !.size = registrations + 1,
                                 !.arg = [e |-> e, pattern |-> p.v.head, expander |-> defining_expander]]

\* e.rmacro(parse('defmacro[_][_]'), defining_expander), the call of line 982
RmacroDefines ==
  /\ configuring
  /\ registrations < MaxRegistrations
  /\ \E e \in DOMAIN cw.w.engines :
       \E p \in {parse(heap, "defmacro[_][_]")} :
           /\ heap' = p.h
           /\ pv' = p.v
           /\ cw' = [cw EXCEPT !.w = rmacro(cw.w, e, p.v.head, defining_expander)]
           /\ out' = [out EXCEPT !.op = "rmacro", !.size = registrations + 1,
                                 !.arg = [e |-> e, pattern |-> p.v.head, expander |-> defining_expander]]

\* e.macroexpand(parse(src)) for a text with definitions
MacroexpandDefinitions ==
  /\ configuring
  /\ \E e \in DOMAIN cw.w.engines, k \in DOMAIN DefinitionSources :
       \E p \in {parse(heap, DefinitionSources[k])} :
       \E a \in {macroexpand(p.h, e, p.v.head, st0(cw.w), 0)} :
           /\ heap' = a.h
           /\ pv' = p.v
           /\ cw' = [cw EXCEPT !.w = a.st.w]
           /\ out' = [out EXCEPT !.op = "macroexpand", !.src = DefinitionSources[k], !.t = p.v.head,
                                 !.arg = [e |-> e, pattern |-> null, expander |-> [kind |-> "none"]],
                                 !.r = a.r, !.err = a.err, !.log = a.st.log, !.size = Len(p.h)]

NextDefmacro == \/ Quote \/ MacroDefines \/ RmacroDefines \/ Clone \/ MacroexpandDefinitions

SpecDefmacro == InitTree /\ [][NextDefmacro]_vars

\* the log entries of the nodes that pass p visited
visits_of(p) == {c \in DOMAIN out.log : /\ out.log[c].k = "call"
                                       /\ out.log[c].f = "macro_expand"
                                       /\ out.log[c].pass = p}

\* in the visit with log entry c, pair i of the array macros was tried on the node
tried_at(c, macros, i) ==
  \E t \in DOMAIN out.log :
     /\ t > c
     /\ out.log[t].k = "try"
     /\ out.log[t].pass = out.log[c].pass /\ out.log[t].n = out.log[c].n
     /\ out.log[t].macros = macros /\ out.log[t].i = i
     /\ \A c2 \in visits_of(out.log[c].pass) : ~ (c < c2 /\ c2 < t)

\* the visit with log entry c ended before pair i: an earlier pair gave the replacement
\* of the node, or its expander threw
ended_before(c, i) ==
  \E t \in DOMAIN out.log :
     /\ t > c
     /\ out.log[t].k = "expand"
     /\ out.log[t].pass = out.log[c].pass /\ out.log[t].n = out.log[c].n
     /\ out.log[t].i < i
     /\ (out.log[t].r # null \/ out.err # "")

\* C28: a macro that an expander registers while a macroexpand pass is running is tried
\* on every node that the same pass visits after the registration (on a node that an
\* earlier pair replaces the loop over the pairs ends before it), and on no node that the
\* pass visited before the registration.
C28_RegisteredMacroTried ==
  out.op = "macroexpand" =>
    \A r \in DOMAIN out.log :
       out.log[r].k = "register" =>
         /\ out.log[r - 1].k = "try"
         /\ \A c \in visits_of(out.log[r - 1].pass) :
               /\ (c > r /\ ~ ended_before(c, out.log[r].i))
                     => tried_at(c, out.log[r].macros, out.log[r].i)
               /\ c < r => ~ tried_at(c, out.log[r].macros, out.log[r].i)

(***************************************************************************)
(* Specification SpecFlatten: after parse(src), the page calls flatten on  *)
(* a node of the tree and then flatten on the node that came back.         *)
(***************************************************************************)
\* n.flatten().flatten(): the second call, on the node out.r that the first returned
FlattenAgain ==
  /\ out.op = "flatten"
  /\ out.err = "" /\ out.r # null
  /\ \E a \in {flatten(heap, out.r)} :
         /\ heap' = a.h
         /\ out' = [out EXCEPT !.op = "flatten again", !.arg = out.r, !.r = a.r, !.err = a.err,
                               !.size = Len(heap)]
  /\ UNCHANGED <<pv, cw>>

NextFlatten == \/ Quote \/ Parse \/ Flatten \/ FlattenAgain

SpecFlatten == InitTree /\ [][NextFlatten]_vars

\* C29: flatten is idempotent: t.flatten().flatten() has the data and the sequence of
\* children of t.flatten(), for every node t of a parsed tree.
C29_FlattenIdempotent ==
  out.op = "flatten again" =>
    /\ out.err = ""
    /\ heap[out.r].data = heap[out.arg].data
    /\ heap[out.r].ch = heap[out.arg].ch

(***************************************************************************)
(* Specification SpecWhitespace: parse(s) and, once it has returned,       *)
(* parse(s + w) for a run w of spaces, tabs and line breaks.               *)
(*   out  round: 1 during parse(s), 2 during parse(s + w); tokens and      *)
(*        first: the token nodes and the tree of parse(s)                  *)
(***************************************************************************)
Paddings == {" ", "\t", "\n", " \n\t"}

\* the data of the token nodes that the lexing loop has made, in the order of the text
\* (lines 475-477 push every token node twice onto all_nodes)
tokens(h, v) == [k \in 1..(Len(v.all_nodes) \div 2) |-> h[v.all_nodes[2 * k]].data]

InitWhitespace ==
  /\ \E src \in Sources : pv = parse_start(src)
  /\ heap = <<>>
  /\ out = [op |-> "parse", round |-> 1, src |-> pv.s, root |-> null, first |-> <<>>,
            tokens |-> <<>>, text |-> ""]
  /\ cw = <<>>

\* parse(s + w), started once parse(s) has returned
ParsePadded ==
  /\ pv.pc = "done"
  /\ out.round = 1
  /\ \E w \in Paddings :
       /\ out' = [out EXCEPT !.round = 2, !.root = pv.head, !.first = tree(heap, pv.head),
                             !.tokens = tokens(heap, pv), !.text = out.src \o w]
       /\ pv' = parse_start(out.src \o w)
  /\ UNCHANGED <<heap, cw>>

NextWhitespace ==
  \/ Lex \/ CommentScan \/ Fold \/ InferSemicolons \/ FlattenInvocations \/ Root
  \/ ParsePadded

SpecWhitespace == InitWhitespace /\ [][NextWhitespace]_vars

\* C30: whitespace emits no token.  For every well-formed source text s, lexing s
\* followed by a run of spaces, tabs or line breaks (also after a trailing comment) makes
\* the same sequence of token nodes as lexing s, and parse returns the same tree.
C30_WhitespaceNoToken ==
  (out.round = 2 /\ parse_ended(pv) /\ well_formed(out.src)) =>
     /\ pv.pc = "done"
     /\ tokens(heap, pv) = out.tokens
     /\ tree(heap, pv.head) = out.first

====
